--------------------------- MODULE Spec2Model ---------------------------
(***************************************************************************)
(* A model of the order-data ingestion engine: the CLI `process` command   *)
(* (cli), IngestionEngine (src/src/ingestion-engine.ts), the transform     *)
(* library (DataTransforms), the storage layer (src/src/database.ts) and   *)
(* the relational schema it writes to.                                     *)
(*                                                                         *)
(* JavaScript strings are sequences of one-character strings, so that      *)
(* trimming, case folding, splitting and number parsing are computed and   *)
(* not assumed.  JavaScript values are records tagged by their type in     *)
(* field t.                                                                *)
(***************************************************************************)
EXTENDS Integers, Sequences, FiniteSets, TLC

(***************************************************************************)
(* Characters and strings                                                  *)
(***************************************************************************)

Digits == <<"0","1","2","3","4","5","6","7","8","9">>

UpperCase ==
  <<"A","B","C","D","E","F","G","H","I","J","K","L","M",
    "N","O","P","Q","R","S","T","U","V","W","X","Y","Z">>

LowerCase ==
  <<"a","b","c","d","e","f","g","h","i","j","k","l","m",
    "n","o","p","q","r","s","t","u","v","w","x","y","z">>

\* The characters of the model in ascending UTF-16 code unit order.
CharOrder ==
  <<" ", "!", "%", "&", "(", ")", ",", "-", ".", "/">> \o Digits \o <<":", "?">>
    \o UpperCase \o <<"_">> \o LowerCase \o <<"|">>

Range(f) == { f[i] : i \in DOMAIN f }

IndexOf(seq, c) == CHOOSE i \in DOMAIN seq : seq[i] = c

IsDigit(c) == c \in Range(Digits)

DigitVal(c) == IndexOf(Digits, c) - 1

CharCode(c) == IndexOf(CharOrder, c)

IsSpace(c) == c = " "

LowerChar(c) == IF c \in Range(UpperCase) THEN LowerCase[IndexOf(UpperCase, c)] ELSE c

\* String.prototype.toLowerCase
ToLowerCase(s) == [i \in DOMAIN s |-> LowerChar(s[i])]

RECURSIVE TrimStart(_)
TrimStart(s) == IF s # <<>> /\ IsSpace(Head(s)) THEN TrimStart(Tail(s)) ELSE s

RECURSIVE TrimEnd(_)
TrimEnd(s) ==
  IF s # <<>> /\ IsSpace(s[Len(s)]) THEN TrimEnd(SubSeq(s, 1, Len(s) - 1)) ELSE s

\* String.prototype.trim
Trim(s) == TrimEnd(TrimStart(s))

\* String.prototype.includes for a one-character needle
IncludesChar(s, c) == \E i \in DOMAIN s : s[i] = c

\* String.prototype.split for a one-character separator
RECURSIVE SplitAcc(_, _, _)
SplitAcc(s, c, cur) ==
  IF s = <<>> THEN <<cur>>
  ELSE IF Head(s) = c THEN <<cur>> \o SplitAcc(Tail(s), c, <<>>)
  ELSE SplitAcc(Tail(s), c, Append(cur, Head(s)))

Split(s, c) == SplitAcc(s, c, <<>>)

\* The comparison Array.prototype.sort uses by default: by UTF-16 code units.
RECURSIVE StrLess(_, _)
StrLess(a, b) ==
  IF a = <<>> THEN b # <<>>
  ELSE IF b = <<>> THEN FALSE
  ELSE IF Head(a) = Head(b) THEN StrLess(Tail(a), Tail(b))
  ELSE CharCode(Head(a)) < CharCode(Head(b))

RECURSIVE AllDigits(_)
AllDigits(s) == s = <<>> \/ (IsDigit(Head(s)) /\ AllDigits(Tail(s)))

\* The longest prefix of s made of digits
RECURSIVE DigitPrefix(_)
DigitPrefix(s) ==
  IF s # <<>> /\ IsDigit(Head(s)) THEN <<Head(s)>> \o DigitPrefix(Tail(s)) ELSE <<>>

RECURSIVE DigitsValueAcc(_, _)
DigitsValueAcc(s, acc) ==
  IF s = <<>> THEN acc ELSE DigitsValueAcc(Tail(s), 10 * acc + DigitVal(Head(s)))

DigitsValue(s) == DigitsValueAcc(s, 0)

RECURSIVE Pow10(_)
Pow10(k) == IF k = 0 THEN 1 ELSE 10 * Pow10(k - 1)

RECURSIVE NatToStr(_)
NatToStr(n) ==
  IF n < 10 THEN <<Digits[n + 1]>> ELSE Append(NatToStr(n \div 10), Digits[(n % 10) + 1])

\* Number-to-string conversion of an integer
IntToStr(n) == IF n < 0 THEN <<"-">> \o NatToStr(0 - n) ELSE NatToStr(n)

(***************************************************************************)
(* JavaScript values                                                       *)
(***************************************************************************)

Undefined == [t |-> "undefined"]

Null == [t |-> "null"]

Str(s) == [t |-> "string", s |-> s]

\* A finite number, kept exactly as the fraction num/den (den a power of ten)
Num(n, d) == [t |-> "number", num |-> n, den |-> d]

IntNum(n) == Num(n, 1)

NaN == [t |-> "NaN"]

Bool(b) == [t |-> "boolean", b |-> b]

\* A valid Date, by its local-time components
DateOf(y, mo, d, h, mi, s) ==
  [t |-> "date", y |-> y, mo |-> mo, d |-> d, h |-> h, mi |-> mi, s |-> s]

InvalidDate == [t |-> "invalid_date"]

\* A thrown ProcessingError, carried as the result of the call that raised it
Throw(msg) == [t |-> "throw", msg |-> msg]

IsThrow(v) == v.t = "throw"

IsString(v) == v.t = "string"

\* typeof v === 'number'
IsNumber(v) == v.t \in {"number", "NaN"}

\* v instanceof Date
IsDate(v) == v.t \in {"date", "invalid_date"}

\* ToBoolean(v)
Truthy(v) ==
  CASE v.t = "undefined" -> FALSE
    [] v.t = "null" -> FALSE
    [] v.t = "string" -> v.s # <<>>
    [] v.t = "number" -> v.num # 0
    [] v.t = "NaN" -> FALSE
    [] v.t = "boolean" -> v.b
    [] OTHER -> TRUE

\* Validators.isValidString
isValidString(v) == IsString(v) /\ Len(Trim(v.s)) > 0

\* Validators.isValidNumber
isValidNumber(v) == v.t = "number"

\* parseInt(v): an optional sign and the leading digits, NaN when there are none
ParseInt(v) ==
  LET Signed(neg, ds) ==
        IF ds = <<>> THEN NaN
        ELSE IntNum(IF neg THEN 0 - DigitsValue(ds) ELSE DigitsValue(ds))
      Unsigned(s0) == IF Head(s0) \in {"-", "+"} THEN Tail(s0) ELSE s0
      Trimmed(s0) ==
        IF s0 = <<>> THEN NaN ELSE Signed(Head(s0) = "-", DigitPrefix(Unsigned(s0)))
  IN IF ~IsString(v) THEN NaN ELSE Trimmed(TrimStart(v.s))

\* parseFloat(v): an optional sign, digits, an optional fraction (the longest
\* such prefix); NaN when there is no digit.  Exponents are not modelled.
ParseFloat(v) ==
  LET Magnitude(neg, ip, fp) ==
        IF ip = <<>> /\ fp = <<>> THEN NaN
        ELSE Num(IF neg THEN 0 - DigitsValue(ip \o fp) ELSE DigitsValue(ip \o fp),
                 Pow10(Len(fp)))
      Fraction(r1) == IF r1 # <<>> /\ Head(r1) = "." THEN DigitPrefix(Tail(r1)) ELSE <<>>
      AfterInteger(neg, s1, ip) ==
        Magnitude(neg, ip, Fraction(SubSeq(s1, Len(ip) + 1, Len(s1))))
      Unsigned(neg, s1) == AfterInteger(neg, s1, DigitPrefix(s1))
      Trimmed(s0) ==
        IF s0 = <<>> THEN NaN
        ELSE Unsigned(Head(s0) = "-", IF Head(s0) \in {"-", "+"} THEN Tail(s0) ELSE s0)
  IN IF ~IsString(v) THEN NaN ELSE Trimmed(TrimStart(v.s))

\* Math.floor of a finite number that is not negative
MathFloor(x) == x.num \div x.den

\* Math.round of a finite number: floor(x + 1/2)
MathRound(x) == (2 * x.num + x.den) \div (2 * x.den)

\* x < 0 for a finite number
IsNegative(x) == x.num < 0

\* v || d
OrElse(v, d) == IF Truthy(v) THEN v ELSE d

\* String(value).replace(/[^0-9.-]/g, '')
StripNonNumeric(s) == SelectSeq(s, LAMBDA c : IsDigit(c) \/ c \in {".", "-"})

NonEmptyParts(parts) == SelectSeq(parts, LAMBDA p : p # <<>>)

IsDigitRun(s, lo, hi) == Len(s) >= lo /\ Len(s) <= hi /\ AllDigits(s)

\* new Date(string).  Modelled for the ISO forms YYYY-MM-DD, optionally
\* followed by "T" or a space and HH:MM or HH:MM:SS; any other text is an
\* Invalid Date.
JsDateParse(s) ==
  LET Value(dp, tp) ==
        DateOf(DigitsValue(dp[1]), DigitsValue(dp[2]), DigitsValue(dp[3]),
               DigitsValue(tp[1]), DigitsValue(tp[2]),
               IF Len(tp) = 3 THEN DigitsValue(tp[3]) ELSE 0)
      DateOk(dp) ==
        /\ Len(dp) = 3
        /\ IsDigitRun(dp[1], 4, 4) /\ IsDigitRun(dp[2], 2, 2) /\ IsDigitRun(dp[3], 2, 2)
        /\ DigitsValue(dp[2]) \in 1..12 /\ DigitsValue(dp[3]) \in 1..31
      TimeOk(tp) ==
        /\ Len(tp) \in {2, 3}
        /\ \A i \in DOMAIN tp : IsDigitRun(tp[i], 2, 2)
        /\ DigitsValue(tp[1]) <= 23 /\ DigitsValue(tp[2]) <= 59
        /\ (Len(tp) = 3 => DigitsValue(tp[3]) <= 59)
      Checked(dp, tp) == IF DateOk(dp) /\ TimeOk(tp) THEN Value(dp, tp) ELSE InvalidDate
      Parts(sp) ==
        IF Len(sp) > 2 THEN InvalidDate
        ELSE Checked(Split(sp[1], "-"),
                     IF Len(sp) = 2 THEN Split(sp[2], ":")
                     ELSE <<<<"0", "0">>, <<"0", "0">>>>)
  IN Parts(IF IncludesChar(s, "T") THEN Split(s, "T") ELSE Split(s, " "))

(***************************************************************************)
(* String constants of the program                                         *)
(***************************************************************************)

\* The closed enumeration of order statuses
OrderStatus ==
  [
    ACCEPTED |-> <<"A","C","C","E","P","T","E","D">>,
    REJECTED |-> <<"R","E","J","E","C","T","E","D">>,
    REJECTED_CUSTOMER |-> <<"R","E","J","E","C","T","E","D","_","C","U","S","T","O","M","E","R">>,
    REJECTED_RESTAURANT |-> <<"R","E","J","E","C","T","E","D","_","R","E","S","T","A","U","R","A","N","T">>,
    CANCELLED_CUSTOMER |-> <<"C","A","N","C","E","L","L","E","D","_","C","U","S","T","O","M","E","R">>,
    CANCELLED_RESTAURANT |-> <<"C","A","N","C","E","L","L","E","D","_","R","E","S","T","A","U","R","A","N","T">>,
    COMPLETED |-> <<"C","O","M","P","L","E","T","E","D">>
  ]

\* The closed enumeration of delivery types
DeliveryType ==
  [
    DELIVERY |-> <<"D","E","L","I","V","E","R","Y">>,
    COLLECTION |-> <<"C","O","L","L","E","C","T","I","O","N">>,
    PICKUP |-> <<"P","I","C","K","U","P">>,
    UNKNOWN |-> <<"U","N","K","N","O","W","N">>
  ]

\* The other string literals of the transforms and the engine
Lit ==
  [
    unknown |-> <<"u","n","k","n","o","w","n">>,
    one |-> <<"1">>,
    pct |-> <<"%">>,
    delivery |-> <<"d","e","l","i","v","e","r","y">>,
    collection |-> <<"c","o","l","l","e","c","t","i","o","n">>,
    pickup |-> <<"p","i","c","k","u","p">>,
    completed |-> <<"c","o","m","p","l","e","t","e","d">>,
    canceled |-> <<"c","a","n","c","e","l","e","d">>,
    on |-> <<"o","n">>,
    true |-> <<"t","r","u","e">>,
    accepted |-> <<"a","c","c","e","p","t","e","d">>,
    customer |-> <<"c","u","s","t","o","m","e","r">>,
    good |-> <<"g","o","o","d">>,
    bad |-> <<"b","a","d">>,
    GBP |-> <<"G","B","P">>,
    overall |-> <<"o","v","e","r","a","l","l">>,
    zero |-> <<"0">>
  ]

(***************************************************************************)
(* DataTransforms                                                          *)
(***************************************************************************)

\* value?.toLowerCase()
LowerOf(v) == IF IsString(v) THEN Str(ToLowerCase(v.s)) ELSE Undefined

existsOrEmpty(value) == OrElse(value, Str(<<>>))

existsOrDefault(value) == OrElse(value, Str(Lit.unknown))

parseBoolean(value, trueValue) == Bool(value = Str(trueValue))

parsePercentage(value) ==
  LET Percent(num) ==
        IF num.t = "NaN" THEN Str(Lit.unknown)
        ELSE Str(IntToStr(MathRound(Num(100 * num.num, num.den))) \o Lit.pct)
  IN Percent(ParseFloat(value))

\* parseInt(part) || 0, for a part that may be missing
IntOrZero(parts, i) ==
  LET Or0(n) == IF n.t = "number" THEN n.num ELSE 0
  IN Or0(IF i \in DOMAIN parts THEN ParseInt(Str(parts[i])) ELSE NaN)

\* The test of a time of day, which also refuses an hour above 23
InvalidTimeOfDay(hours, minutes, seconds) ==
  hours < 0 \/ hours > 23 \/ minutes < 0 \/ minutes > 59 \/ seconds < 0 \/ seconds > 59

\* The test timeToMinutes makes of the three parsed components
InvalidTimeValues(hours, minutes, seconds) ==
  hours < 0 \/ minutes < 0 \/ minutes > 59 \/ seconds < 0 \/ seconds > 59

timeToMinutes(value) ==
  LET Minutes(hours, minutes, seconds) ==
        IF InvalidTimeValues(hours, minutes, seconds)
        THEN Throw("Invalid time values")
        ELSE IntNum(hours * 60 + minutes + MathRound(Num(seconds, 60)))
      OfParts(parts) ==
        IF Len(parts) < 2 \/ Len(parts) > 3 THEN Throw("Invalid time format")
        ELSE Minutes(IntOrZero(parts, 1), IntOrZero(parts, 2), IntOrZero(parts, 3))
      OfNumber(num) ==
        IF num.t = "NaN" \/ IsNegative(num) THEN Throw("Invalid numeric time value")
        ELSE IntNum(MathRound(num))
  IN IF ~isValidString(value) THEN Null
     ELSE IF IncludesChar(value.s, ":") THEN OfParts(Split(value.s, ":"))
     ELSE OfNumber(ParseFloat(value))

\* The match of /^(\d{1,2})\/(\d{1,2})\/(\d{4})\s+(\d{1,2}):(\d{2}):(\d{2})$/:
\* the six captured numbers, or <<>> when the value does not match
ukDateMatch(s) ==
  LET Captures(dp, tp) ==
        IF /\ Len(dp) = 3 /\ Len(tp) = 3
           /\ IsDigitRun(dp[1], 1, 2) /\ IsDigitRun(dp[2], 1, 2) /\ IsDigitRun(dp[3], 4, 4)
           /\ IsDigitRun(tp[1], 1, 2) /\ IsDigitRun(tp[2], 2, 2) /\ IsDigitRun(tp[3], 2, 2)
        THEN <<DigitsValue(dp[1]), DigitsValue(dp[2]), DigitsValue(dp[3]),
               DigitsValue(tp[1]), DigitsValue(tp[2]), DigitsValue(tp[3])>>
        ELSE <<>>
      Parts(sp) ==
        IF Len(sp) = 2 THEN Captures(Split(sp[1], "/"), Split(sp[2], ":")) ELSE <<>>
  IN IF s # <<>> /\ ~IsSpace(Head(s)) /\ ~IsSpace(s[Len(s)])
     THEN Parts(NonEmptyParts(Split(s, " ")))
     ELSE <<>>

parseDate(value) ==
  LET Parsed(date) == IF date.t = "invalid_date" THEN Throw("Invalid date format") ELSE date
      Matched(m) ==
        IF m # <<>>
        THEN IF \/ m[1] < 1 \/ m[1] > 31 \/ m[2] < 1 \/ m[2] > 12
                \/ m[4] > 23 \/ m[5] > 59 \/ m[6] > 59
             THEN Throw("Invalid date/time components")
             ELSE DateOf(m[3], m[2], m[1], m[4], m[5], m[6])
        ELSE Parsed(JsDateParse(value.s))
  IN IF ~isValidString(value) THEN Null ELSE Matched(ukDateMatch(value.s))

parseDeliveryPlatform2Time(value) == OrElse(value, Str(<<>>))

parseDeliveryPlatform2DateTime(dateValue, timeValue) ==
  LET Combined(dp, tp) ==
        IF ~(/\ Len(dp) = 3 /\ IsDigitRun(dp[1], 4, 4)
             /\ IsDigitRun(dp[2], 1, 2) /\ IsDigitRun(dp[3], 1, 2))
        THEN Null
        ELSE IF ~(Len(tp) = 2 /\ IsDigitRun(tp[1], 1, 2) /\ IsDigitRun(tp[2], 2, 2))
        THEN Null
        ELSE DateOf(DigitsValue(dp[1]), DigitsValue(dp[2]), DigitsValue(dp[3]),
                    DigitsValue(tp[1]), DigitsValue(tp[2]), 0)
  IN IF ~Truthy(dateValue) \/ ~Truthy(timeValue) THEN Null
     ELSE IF ~IsString(dateValue) \/ ~IsString(timeValue) THEN Throw("TypeError")
     ELSE Combined(Split(dateValue.s, "-"), Split(timeValue.s, ":"))

deliveryType(value) ==
  LET Of(v) == CASE v = Str(Lit.delivery) -> Str(DeliveryType.DELIVERY)
                 [] v = Str(Lit.collection) -> Str(DeliveryType.COLLECTION)
                 [] v = Str(Lit.pickup) -> Str(DeliveryType.PICKUP)
                 [] OTHER -> Str(DeliveryType.UNKNOWN)
  IN Of(LowerOf(value))

\* A variant of deliveryPlatform1OrderStatus that hands a status it does not
\* know back as it came
deliveryPlatform1OrderStatusLenient(value) ==
  LET Of(v) == CASE v = Str(Lit.completed) -> Str(OrderStatus.COMPLETED)
                 [] v = Str(Lit.canceled) -> Str(OrderStatus.REJECTED_CUSTOMER)
                 [] OTHER -> value
  IN Of(LowerOf(value))

deliveryPlatform1OrderStatus(value) ==
  LET Of(v) == CASE v = Str(Lit.completed) -> Str(OrderStatus.COMPLETED)
                 [] v = Str(Lit.canceled) -> Str(OrderStatus.REJECTED_CUSTOMER)
                 [] OTHER -> Str(OrderStatus.REJECTED)
  IN Of(LowerOf(value))

deliveryPlatform1Boolean(value) == parseBoolean(value, Lit.one)

deliveryPlatform1CancelledBy(value) == existsOrEmpty(value)

deliveryPlatform3OrderStatus(value) == existsOrEmpty(value)

deliveryPlatform2AcceptStatus(value) ==
  IF LowerOf(value) = Str(Lit.on) THEN Str(Lit.accepted)
  ELSE IF ParseFloat(value).t # "NaN" THEN parsePercentage(value)
  ELSE existsOrDefault(value)

\* default: return null, for an unregistered name
UnknownTransformNull(value) == Null

\* default: return value, the branch taken for an unregistered name
UnknownTransform(value) == value

\* The master transform dispatcher
runTransformation(value, transformName) ==
  CASE transformName = "existsOrEmpty" -> existsOrEmpty(value)
    [] transformName = "existsOrDefault" -> existsOrDefault(value)
    [] transformName = "parseBoolean" -> parseBoolean(value, Lit.one)
    [] transformName = "parsePercentage" -> parsePercentage(value)
    [] transformName = "timeToMinutes" -> timeToMinutes(value)
    [] transformName = "parseDate" -> parseDate(value)
    [] transformName = "parseDeliveryPlatform2Time" -> parseDeliveryPlatform2Time(value)
    [] transformName = "parseDeliveryPlatform2DateTime" -> parseDate(value)
    [] transformName = "deliveryType" -> deliveryType(value)
    [] transformName = "deliveryPlatform1OrderStatus" -> deliveryPlatform1OrderStatus(value)
    [] transformName = "deliveryPlatform1Boolean" -> deliveryPlatform1Boolean(value)
    [] transformName = "deliveryPlatform1CancelledBy" -> deliveryPlatform1CancelledBy(value)
    [] transformName = "deliveryPlatform3OrderStatus" -> deliveryPlatform3OrderStatus(value)
    [] transformName = "deliveryPlatform2AcceptStatus" -> deliveryPlatform2AcceptStatus(value)
    [] OTHER -> UnknownTransform(value)

(***************************************************************************)
(* Integration configuration                                               *)
(***************************************************************************)

\* One entry of Integration.field_mapping: the CSV column (key) and its
\* FieldMap.  An absent type or transform is "undefined", an absent default
\* is Undefined, an absent enum_values has has_enum = FALSE.
FieldMap(key, target, type, transform, required) ==
  [key |-> key, target |-> target, type |-> type, transform |-> transform,
   required |-> required, default |-> Undefined, has_enum |-> FALSE, enum_values |-> <<>>]

WithEnum(fm, values) == [fm EXCEPT !.has_enum = TRUE, !.enum_values = values]

\* field_mapping of deliveryplatform3_total_order, as seeded
deliveryPlatform3Fields ==
  <<
    FieldMap(<<"P","a","r","t","n","e","r">>,
      "restaurant_name", "undefined", "undefined", TRUE),
    FieldMap(<<"O","r","d","e","r"," ","I","d">>,
      "platform_order_id", "undefined", "undefined", TRUE),
    FieldMap(<<"O","r","d","e","r"," ","S","t","a","t","u","s">>,
      "order_status_raw", "undefined", "deliveryPlatform3OrderStatus", FALSE),
    FieldMap(<<"T","o","t","a","l"," ","O","r","d","e","r"," ","S","t","a","t","u","s"," ","-"," ","C","u","s","t","o","m","e","r"," ","C","a","n","c","e","l","l","e","d">>,
      "customer_cancelled_count", "number", "undefined", FALSE),
    FieldMap(<<"T","o","t","a","l"," ","O","r","d","e","r"," ","S","t","a","t","u","s"," ","-"," ","P","a","r","t","n","e","r"," ","C","a","n","c","e","l","l","e","d">>,
      "partner_cancelled_count", "number", "undefined", FALSE),
    FieldMap(<<"O","r","d","e","r"," ","D","a","t","e","t","i","m","e">>,
      "order_datetime", "date", "parseDate", FALSE),
    FieldMap(<<"T","o","t","a","l"," ","T","o","t","a","l"," ","O","r","d","e","r"," ","V","a","l","u","e">>,
      "order_value", "number", "undefined", FALSE),
    FieldMap(<<"T","o","t","a","l"," ","A","p","p","l","i","e","d"," ","D","i","s","c","o","u","n","t"," ","A","m","o","u","n","t">>,
      "discount_amount", "number", "undefined", FALSE),
    FieldMap(<<"T","o","t","a","l"," ","B","a","s","k","e","t"," ","S","i","z","e">>,
      "basket_size", "number", "undefined", FALSE),
    WithEnum(FieldMap(<<"D","e","l","i","v","e","r","y","/","C","o","l","l","e","c","t","i","o","n">>,
      "delivery_type", "enum", "deliveryType", FALSE),
      <<<<"D","e","l","i","v","e","r","y">>, <<"C","o","l","l","e","c","t","i","o","n">>>>),
    FieldMap(<<"A","v","e","r","a","g","e"," ","C","o","u","r","i","e","r"," ","A","r","r","i","v","a","l"," ","t","o"," ","C","o","l","l","e","c","t","e","d">>,
      "total_delivery_time_minutes", "number", "timeToMinutes", FALSE)
  >>

\* field_mapping of deliveryplatform1_order_history, as seeded
deliveryPlatform1OrderFields ==
  <<
    FieldMap(<<"R","e","s","t","a","u","r","a","n","t">>,
      "restaurant_name", "undefined", "undefined", TRUE),
    FieldMap(<<"E","x","t","e","r","n","a","l"," ","r","e","s","t","a","u","r","a","n","t"," ","I","D">>,
      "restaurant_external_id", "undefined", "undefined", FALSE),
    FieldMap(<<"O","r","d","e","r"," ","I","D">>,
      "platform_order_id", "undefined", "undefined", TRUE),
    WithEnum(FieldMap(<<"O","r","d","e","r"," ","s","t","a","t","u","s">>,
      "order_status", "enum", "deliveryPlatform1OrderStatus", TRUE),
      <<<<"c","o","m","p","l","e","t","e","d">>, <<"c","a","n","c","e","l","e","d">>>>),
    FieldMap(<<"C","o","m","p","l","e","t","e","d","?">>,
      "completed_flag", "boolean", "deliveryPlatform1Boolean", FALSE),
    FieldMap(<<"C","a","n","c","e","l","l","e","d"," ","b","y">>,
      "cancelled_by", "undefined", "deliveryPlatform1CancelledBy", FALSE),
    FieldMap(<<"T","i","c","k","e","t"," ","s","i","z","e">>,
      "order_value", "number", "undefined", FALSE),
    FieldMap(<<"M","e","n","u"," ","i","t","e","m"," ","c","o","u","n","t">>,
      "basket_size", "number", "undefined", FALSE),
    FieldMap(<<"C","u","r","r","e","n","c","y"," ","c","o","d","e">>,
      "currency_code", "undefined", "undefined", FALSE),
    FieldMap(<<"T","i","m","e"," ","c","u","s","t","o","m","e","r"," ","o","r","d","e","r","e","d">>,
      "order_datetime", "date", "undefined", FALSE),
    FieldMap(<<"T","i","m","e"," ","t","o"," ","c","o","n","f","i","r","m">>,
      "prep_time_minutes", "number", "timeToMinutes", FALSE),
    FieldMap(<<"C","o","u","r","i","e","r"," ","w","a","i","t","i","n","g"," ","t","i","m","e"," ","(","r","e","s","t","a","u","r","a","n","t",")">>,
      "courier_wait_time_minutes", "number", "timeToMinutes", FALSE),
    FieldMap(<<"T","o","t","a","l"," ","d","e","l","i","v","e","r","y"," ","t","i","m","e">>,
      "total_delivery_time_minutes", "number", "timeToMinutes", FALSE),
    FieldMap(<<"T","o","t","a","l"," ","p","r","e","p"," ","&"," ","h","a","n","d","-","o","f","f"," ","t","i","m","e">>,
      "restaurant_wait_time_minutes", "number", "timeToMinutes", FALSE),
    WithEnum(FieldMap(<<"F","u","l","f","i","l","m","e","n","t"," ","T","y","p","e">>,
      "delivery_type", "enum", "deliveryType", FALSE),
      <<<<"D","e","l","i","v","e","r","y">>, <<"P","i","c","k","u","p">>>>)
  >>

\* field_mapping of deliveryplatform1_rating, as seeded
deliveryPlatform1RatingFields ==
  <<
    FieldMap(<<"R","e","s","t","a","u","r","a","n","t">>,
      "restaurant_name", "undefined", "undefined", TRUE),
    FieldMap(<<"E","x","t","e","r","n","a","l"," ","r","e","s","t","a","u","r","a","n","t"," ","I","D">>,
      "restaurant_external_id", "undefined", "undefined", FALSE),
    FieldMap(<<"O","r","d","e","r"," ","I","D">>,
      "platform_order_id", "undefined", "undefined", TRUE),
    FieldMap(<<"R","a","t","i","n","g"," ","v","a","l","u","e">>,
      "rating_value", "number", "undefined", TRUE),
    FieldMap(<<"R","a","t","i","n","g"," ","d","a","t","e">>,
      "rating_date", "date", "undefined", FALSE),
    FieldMap(<<"C","o","m","m","e","n","t">>,
      "comment", "undefined", "undefined", FALSE)
  >>

\* field_mapping of deliveryplatform2_business_segments, as seeded
deliveryPlatform2Fields ==
  <<
    FieldMap(<<"P","a","r","t","n","e","r"," ","R","e","s","t","a","u","r","a","n","t"," ","N","a","m","e">>,
      "restaurant_name", "undefined", "undefined", TRUE),
    FieldMap(<<"O","r","d","e","r"," ","O","r","d","e","r"," ","I","D">>,
      "platform_order_id", "undefined", "undefined", TRUE),
    FieldMap(<<"C","o","m","m","o","n"," ","B","u","s","i","n","e","s","s"," ","S","e","g","m","e","n","t","s"," "," ","O","r","d","e","r"," ","D","a","t","e">>,
      "order_datetime", "date", "undefined", FALSE),
    FieldMap(<<"C","o","m","m","o","n"," ","B","u","s","i","n","e","s","s"," ","S","e","g","m","e","n","t","s"," ","O","r","d","e","r"," ","M","i","n","u","t","e","5"," ","o","f"," ","D","a","y">>,
      "order_time", "undefined", "parseDeliveryPlatform2Time", FALSE),
    FieldMap(<<"O","r","d","e","r"," ","O","r","d","e","r"," ","V","a","l","u","e">>,
      "order_value", "number", "undefined", FALSE),
    FieldMap(<<"O","r","d","e","r"," ","A","u","t","o"," ","A","c","c","e","p","t"," ","S","t","a","t","u","s">>,
      "auto_accept_status", "undefined", "deliveryPlatform2AcceptStatus", FALSE),
    FieldMap(<<"L","o","g","i","s","t","i","c","s"," ","R","e","s","t","a","u","r","a","n","t"," ","W","a","i","t"," ","T","i","m","e"," ","(","A","l","l"," ","R","i","d","e","r","s",","," ","m","i","n","s",")">>,
      "restaurant_wait_time_minutes", "number", "timeToMinutes", FALSE),
    FieldMap(<<"O","r","d","e","r"," ","R","a","t","i","n","g">>,
      "rating_value", "number", "undefined", FALSE)
  >>

\* A ten-column field_mapping, for an integration added beside the seeded ones
tenColumnFields ==
  <<
    FieldMap(<<"c","0">>,
      "restaurant_name", "undefined", "undefined", TRUE),
    FieldMap(<<"c","1">>,
      "f1", "undefined", "undefined", FALSE),
    FieldMap(<<"c","2">>,
      "f2", "undefined", "undefined", FALSE),
    FieldMap(<<"c","3">>,
      "f3", "undefined", "undefined", FALSE),
    FieldMap(<<"c","4">>,
      "f4", "undefined", "undefined", FALSE),
    FieldMap(<<"c","5">>,
      "f5", "undefined", "undefined", FALSE),
    FieldMap(<<"c","6">>,
      "f6", "undefined", "undefined", FALSE),
    FieldMap(<<"c","7">>,
      "f7", "undefined", "undefined", FALSE),
    FieldMap(<<"c","8">>,
      "f8", "undefined", "undefined", FALSE),
    FieldMap(<<"c","9">>,
      "f9", "undefined", "undefined", FALSE)
  >>

\* Integration names, and an integration key the CLI may be given
Name ==
  [
    deliveryplatform3_total_order |->
      <<"d","e","l","i","v","e","r","y","p","l","a","t","f","o","r","m","3","_","t","o","t","a","l","_","o","r","d","e","r">>,
    deliveryplatform1_order_history |->
      <<"d","e","l","i","v","e","r","y","p","l","a","t","f","o","r","m","1","_","o","r","d","e","r","_","h","i","s","t","o","r","y">>,
    deliveryplatform1_rating |->
      <<"d","e","l","i","v","e","r","y","p","l","a","t","f","o","r","m","1","_","r","a","t","i","n","g">>,
    deliveryplatform2_business_segments |->
      <<"d","e","l","i","v","e","r","y","p","l","a","t","f","o","r","m","2","_","b","u","s","i","n","e","s","s","_","s","e","g","m","e","n","t","s">>,
    ten_columns |->
      <<"t","e","n","_","c","o","l","u","m","n","s">>,
    rating_copy |->
      <<"r","a","t","i","n","g","_","c","o","p","y">>,
    seven_columns |->
      <<"s","e","v","e","n","_","c","o","l","u","m","n","s">>,
    bad_key |->
      <<"B","a","d","-","K","e","y">>
  ]

\* The order in which a jsonb object holds its keys: shorter keys first, keys
\* of one length by their bytes.  field_mapping is a JSONB column, so this is
\* the order Object.entries and Object.keys see.
JsonbKeyLess(a, b) == Len(a) < Len(b) \/ (Len(a) = Len(b) /\ StrLess(a, b))

RECURSIVE JsonbInsert(_, _)
JsonbInsert(sorted, fm) ==
  IF sorted = <<>> THEN <<fm>>
  ELSE IF Head(sorted).key = fm.key THEN <<fm>> \o Tail(sorted)
  ELSE IF JsonbKeyLess(fm.key, Head(sorted).key) THEN <<fm>> \o sorted
  ELSE <<Head(sorted)>> \o JsonbInsert(Tail(sorted), fm)

RECURSIVE JsonbObject(_)
JsonbObject(fields) ==
  IF fields = <<>> THEN <<>>
  ELSE JsonbInsert(JsonbObject(SubSeq(fields, 1, Len(fields) - 1)), fields[Len(fields)])

\* A row of the integrations table, as upsertIntegration stores it
IntegrationRow(id, name, platform_id, fields, tables, is_active) ==
  [id |-> id, name |-> name, platform_id |-> platform_id,
   field_mapping |-> JsonbObject(fields), tables |-> tables, is_active |-> is_active]

\* The integrations table in storage order: the four seeded integrations, then
\* three more that an operator has added (one of ten columns, an active one
\* with five of the six columns of the rating integration, and an inactive
\* one with seven of the ten columns).
Integrations ==
  <<
    IntegrationRow(1, Name.deliveryplatform3_total_order, 2, deliveryPlatform3Fields,
                   <<"orders", "restaurants">>, TRUE),
    IntegrationRow(2, Name.deliveryplatform1_order_history, 1, deliveryPlatform1OrderFields,
                   <<"orders", "restaurants">>, TRUE),
    IntegrationRow(3, Name.deliveryplatform1_rating, 1, deliveryPlatform1RatingFields,
                   <<"ratings">>, TRUE),
    IntegrationRow(4, Name.deliveryplatform2_business_segments, 3, deliveryPlatform2Fields,
                   <<"orders", "restaurants">>, TRUE),
    IntegrationRow(5, Name.ten_columns, 1, tenColumnFields, <<"restaurants">>, TRUE),
    IntegrationRow(6, Name.rating_copy, 1, SubSeq(deliveryPlatform1RatingFields, 1, 5),
                   <<"ratings">>, TRUE),
    IntegrationRow(7, Name.seven_columns, 1, SubSeq(tenColumnFields, 1, 7),
                   <<"restaurants">>, FALSE)
  >>

IntegrationById(id) ==
  LET Row(rows) == rows[CHOOSE i \in DOMAIN rows : rows[i].id = id]
  IN Row(Integrations)

\* Array.prototype.includes
Includes(seq, x) == \E i \in DOMAIN seq : seq[i] = x

(***************************************************************************)
(* Field Mapper and Status Resolver (IngestionEngine)                      *)
(***************************************************************************)

\* The properties of a JavaScript object: a function from the names set so far
Get(obj, k) == IF k \in DOMAIN obj THEN obj[k] ELSE Undefined

Set(obj, k, v) == (k :> v) @@ obj

Delete(obj, k) == [x \in DOMAIN obj \ {k} |-> obj[x]]

\* enum_values.find(enumVal => enumVal.toLowerCase() === normalizedValue)
FindEnum(values, normalizedValue) ==
  LET hits == { i \in DOMAIN values : Str(ToLowerCase(values[i])) = normalizedValue }
  IN IF hits = {} THEN Undefined
     ELSE Str(values[CHOOSE i \in hits : \A j \in hits : i <= j])

\* A transformEnum that returns null for a value that matches no entry
transformEnumStrict(value, fieldMap) ==
  IF ~fieldMap.has_enum THEN value
  ELSE OrElse(FindEnum(fieldMap.enum_values, LowerOf(value)), Null)

\* IngestionEngine.transformEnum
transformEnum(value, fieldMap) ==
  IF ~fieldMap.has_enum THEN value
  ELSE OrElse(FindEnum(fieldMap.enum_values, LowerOf(value)), value)

\* A test of the default that only an absent value passes
UseDefaultWhenAbsent(value, fieldMap) == value = Undefined /\ fieldMap.default # Undefined

\* !value && fieldMap.default !== undefined
UseDefault(value, fieldMap) == ~Truthy(value) /\ fieldMap.default # Undefined

applyTransform(value, fieldMap) ==
  LET NotNaN(num) == IF num.t = "NaN" THEN Null ELSE num
      Valid(date) == IF date.t = "invalid_date" THEN Null ELSE date
  IN IF UseDefault(value, fieldMap) THEN fieldMap.default
     ELSE IF fieldMap.transform \notin {"undefined", ""}
     THEN runTransformation(value, fieldMap.transform)
     ELSE CASE fieldMap.type = "number" ->
                 IF ~Truthy(value) THEN Null
                 ELSE NotNaN(ParseFloat(Str(StripNonNumeric(value.s))))
            [] fieldMap.type = "boolean" ->
                 IF ~Truthy(value) THEN Bool(FALSE)
                 ELSE Bool(ToLowerCase(value.s) \in {Lit.on, Lit.true, Lit.one})
            [] fieldMap.type = "date" ->
                 IF ~Truthy(value) THEN Null ELSE Valid(JsDateParse(value.s))
            [] fieldMap.type = "enum" -> transformEnum(value, fieldMap)
            [] OTHER ->
                 IF Truthy(value) THEN OrElse(Str(Trim(value.s)), Null) ELSE Null

\* parseInt of a value that is a string or a number (a number is converted to
\* its decimal text first, so its integer part is what is parsed)
ParseIntOf(v) ==
  IF v.t = "number"
  THEN IntNum(IF v.num < 0 THEN 0 - ((0 - v.num) \div v.den) ELSE v.num \div v.den)
  ELSE ParseInt(v)

\* Platform1Status deriving the status from the fallback fields even when an
\* upstream transform has set one
Platform1StatusFromFlags(result) ==
  IF Truthy(Get(result, "cancelled_by"))
  THEN IF Get(result, "cancelled_by") = Str(Lit.customer)
       THEN Str(OrderStatus.CANCELLED_CUSTOMER)
       ELSE Str(OrderStatus.CANCELLED_RESTAURANT)
  ELSE IF Truthy(Get(result, "completed_flag"))
       THEN Str(OrderStatus.COMPLETED)
       ELSE Str(OrderStatus.REJECTED)

\* The branch of determineOrderStatus for 'deliveryplatform1_order_history'
Platform1Status(result) ==
  IF Truthy(Get(result, "order_status")) THEN Get(result, "order_status")
  ELSE IF Truthy(Get(result, "cancelled_by"))
  THEN IF Get(result, "cancelled_by") = Str(Lit.customer)
       THEN Str(OrderStatus.CANCELLED_CUSTOMER)
       ELSE Str(OrderStatus.CANCELLED_RESTAURANT)
  ELSE IF Truthy(Get(result, "completed_flag"))
       THEN Str(OrderStatus.COMPLETED)
       ELSE Str(OrderStatus.REJECTED)

\* Platform3Status with the partner count tested before the customer count
Platform3StatusPartnerFirst(result) ==
  LET Positive(n) == n.t = "number" /\ n.num > 0
      Status(status) ==
        IF status = Str(Lit.good) THEN Str(OrderStatus.COMPLETED)
        ELSE IF status = Str(Lit.bad) THEN Str(OrderStatus.REJECTED)
        ELSE Str(OrderStatus.ACCEPTED)
      Resolve(customerCancelled, partnerCancelled) ==
        IF Positive(partnerCancelled) THEN Str(OrderStatus.CANCELLED_RESTAURANT)
        ELSE IF Positive(customerCancelled) THEN Str(OrderStatus.CANCELLED_CUSTOMER)
        ELSE Status(LowerOf(Get(result, "order_status_raw")))
  IN Resolve(
       ParseIntOf(OrElse(Get(result, "customer_cancelled_count"), Str(Lit.zero))),
       ParseIntOf(OrElse(Get(result, "partner_cancelled_count"), Str(Lit.zero))))

\* The branch of determineOrderStatus for 'deliveryplatform3_total_order'
Platform3Status(result) ==
  LET Positive(n) == n.t = "number" /\ n.num > 0
      Status(status) ==
        IF status = Str(Lit.good) THEN Str(OrderStatus.COMPLETED)
        ELSE IF status = Str(Lit.bad) THEN Str(OrderStatus.REJECTED)
        ELSE Str(OrderStatus.ACCEPTED)
      Resolve(customerCancelled, partnerCancelled) ==
        IF Positive(customerCancelled) THEN Str(OrderStatus.CANCELLED_CUSTOMER)
        ELSE IF Positive(partnerCancelled) THEN Str(OrderStatus.CANCELLED_RESTAURANT)
        ELSE Status(LowerOf(Get(result, "order_status_raw")))
  IN Resolve(
       ParseIntOf(OrElse(Get(result, "customer_cancelled_count"), Str(Lit.zero))),
       ParseIntOf(OrElse(Get(result, "partner_cancelled_count"), Str(Lit.zero))))

\* The branch of determineOrderStatus for 'deliveryplatform2_business_segments'
Platform2Status(result) ==
  LET Accepted(prep) == Truthy(prep) /\ prep.t = "number" /\ prep.num > 0
  IN IF Accepted(Get(result, "prep_time_minutes"))
     THEN Str(OrderStatus.ACCEPTED)
     ELSE Str(OrderStatus.COMPLETED)

determineOrderStatus(result, integration) ==
  CASE integration.name = Name.deliveryplatform1_order_history -> Platform1Status(result)
    [] integration.name = Name.deliveryplatform3_total_order -> Platform3Status(result)
    [] integration.name = Name.deliveryplatform2_business_segments -> Platform2Status(result)
    [] OTHER -> Str(OrderStatus.ACCEPTED)

\* A normalized record handed back by transform
Mapped(result) == [t |-> "record", r |-> result]

Pad2(n) == IF n < 10 THEN <<"0">> \o NatToStr(n) ELSE NatToStr(n)

Pad4(n) ==
  IF n < 10 THEN <<"0", "0", "0">> \o NatToStr(n)
  ELSE IF n < 100 THEN <<"0", "0">> \o NatToStr(n)
  ELSE IF n < 1000 THEN <<"0">> \o NatToStr(n)
  ELSE NatToStr(n)

\* date.toISOString().split('T')[0], for a process whose time zone is UTC
IsoDatePart(date) == Str(Pad4(date.y) \o <<"-">> \o Pad2(date.mo) \o <<"-">> \o Pad2(date.d))

\* A variant of RequiredEmpty without the comparison with null
RequiredUndefinedOrBlank(fieldMap, transformedValue) ==
  fieldMap.required /\ (transformedValue = Undefined \/ transformedValue = Str(<<>>))

\* fieldMap.required && (transformedValue === undefined ||
\*   transformedValue === null || transformedValue === '')
RequiredEmpty(fieldMap, transformedValue) ==
  fieldMap.required /\
    (transformedValue = Undefined \/ transformedValue = Null
       \/ transformedValue = Str(<<>>))

\* The loop of transform over the entries of field_mapping, from entry i on:
\* the result object, Null when a required field is empty, or the error thrown
RECURSIVE MapFields(_, _, _, _)
MapFields(raw, fields, i, result) ==
  LET Assign(fieldMap, transformedValue) ==
        IF IsThrow(transformedValue) THEN transformedValue
        ELSE IF RequiredEmpty(fieldMap, transformedValue)
        THEN Null
        ELSE MapFields(raw, fields, i + 1, Set(result, fieldMap.target, transformedValue))
      Field(fieldMap) == Assign(fieldMap, applyTransform(Get(raw, fieldMap.key), fieldMap))
  IN IF i > Len(fields) THEN Mapped(result) ELSE Field(fields[i])

\* The special handling of date and time of day for DeliveryPlatform2
CombineDateTime(result, integration) ==
  LET Combined(od, timeValue) ==
        IF Truthy(od) /\ Truthy(timeValue)
        THEN Delete(Set(result, "order_datetime",
                        parseDeliveryPlatform2DateTime(
                          IF IsDate(od) THEN IsoDatePart(od) ELSE od, timeValue)),
                    "order_time")
        ELSE result
  IN IF integration.name = Name.deliveryplatform2_business_segments
     THEN Combined(Get(result, "order_datetime"), Get(result, "order_time"))
     ELSE result

\* IngestionEngine.transform: Mapped(record), Null (the row is dropped) or a Throw
transform(raw, integration) ==
  LET Keyed(result) ==
        IF ~Truthy(Get(result, "platform_order_id"))
           \/ Get(result, "platform_order_id") = Str(<<>>)
        THEN Null
        ELSE Mapped(result)
      WithStatus(result) ==
        IF Includes(integration.tables, "orders")
        THEN Keyed(Set(result, "order_status", determineOrderStatus(result, integration)))
        ELSE Mapped(result)
      After(mapped) ==
        IF mapped.t # "record" THEN mapped
        ELSE WithStatus(CombineDateTime(mapped.r, integration))
  IN After(MapFields(raw, integration.field_mapping, 1,
                     [k \in {"platform_id"} |-> IntNum(integration.platform_id)]))

(***************************************************************************)
(* CSV lines and input files                                               *)
(***************************************************************************)

\* A split of the line on every comma, each field trimmed
splitOnCommas(line) ==
  LET Trimmed(fields) == [i \in DOMAIN fields |-> Trim(fields[i])]
  IN Trimmed(Split(line, ","))

\* One iteration of the loop of parseCSVLine, at character i.  The loop's
\* variables are currentField, inQuotes and result; skip is set when the
\* iteration has consumed the character after it (the i++ of a doubled quote).
CsvStep(line, st, i) ==
  LET char == line[i]
  IN IF st.skip THEN [st EXCEPT !.skip = FALSE]
     ELSE IF char = "\""
     THEN IF st.inQuotes /\ i + 1 <= Len(line) /\ line[i + 1] = "\""
          THEN [st EXCEPT !.currentField = Append(@, "\""), !.skip = TRUE]
          ELSE [st EXCEPT !.inQuotes = ~@]
     ELSE IF char = "," /\ ~st.inQuotes
     THEN [st EXCEPT !.result = Append(@, Trim(st.currentField)), !.currentField = <<>>]
     ELSE [st EXCEPT !.currentField = Append(@, char)]

\* The iterations lo..hi of the loop, in order.  The range is halved, and the
\* first half is evaluated before the second is entered, to keep the depth of
\* evaluation logarithmic in the length of the line.
RECURSIVE CsvLoop(_, _, _, _)
CsvLoop(line, lo, hi, st) ==
  IF lo > hi THEN st
  ELSE IF lo = hi THEN CsvStep(line, st, lo)
  ELSE LET first == CsvLoop(line, lo, (lo + hi) \div 2, st)
       IN IF first.skip \in BOOLEAN
          THEN CsvLoop(line, (lo + hi) \div 2 + 1, hi, first)
          ELSE first

parseCSVLine(line) ==
  LET st == CsvLoop(line, 1, Len(line),
                    [currentField |-> <<>>, inQuotes |-> FALSE, result |-> <<>>, skip |-> FALSE])
  IN Append(st.result, Trim(st.currentField))

\* An order-history export with eleven of the fifteen columns: a full row, a row
\* with a blank order id, a row with a blank order status
OrdersFile ==
  <<
    <<"R","e","s","t","a","u","r","a","n","t",",","O","r","d","e","r"," ","I","D",",","O","r","d","e","r"," ","s","t","a","t","u","s",",","T","i","m","e"," ","t","o"," ","c","o","n","f","i","r","m",",","T","i","c","k","e","t"," ","s","i","z","e",",","E","x","t","e","r","n","a","l"," ","r","e","s","t","a","u","r","a","n","t"," ","I","D",",","C","o","m","p","l","e","t","e","d","?",",","C","a","n","c","e","l","l","e","d"," ","b","y",",","M","e","n","u"," ","i","t","e","m"," ","c","o","u","n","t",",","C","u","r","r","e","n","c","y"," ","c","o","d","e",",","F","u","l","f","i","l","m","e","n","t"," ","T","y","p","e">>,
    <<"R","e","s","t"," ","A",",","O","1",",","c","o","m","p","l","e","t","e","d",",","5",".","5",",","1","2",".","5","0">>,
    <<"R","e","s","t"," ","A",",",",","c","o","m","p","l","e","t","e","d">>,
    <<"R","e","s","t"," ","A",",","O","2">>
  >>

\* An order-history export whose second data row holds a malformed time
MalformedFile ==
  <<
    <<"R","e","s","t","a","u","r","a","n","t",",","O","r","d","e","r"," ","I","D",",","O","r","d","e","r"," ","s","t","a","t","u","s",",","T","i","m","e"," ","t","o"," ","c","o","n","f","i","r","m",",","T","i","c","k","e","t"," ","s","i","z","e",",","E","x","t","e","r","n","a","l"," ","r","e","s","t","a","u","r","a","n","t"," ","I","D",",","C","o","m","p","l","e","t","e","d","?",",","C","a","n","c","e","l","l","e","d"," ","b","y",",","M","e","n","u"," ","i","t","e","m"," ","c","o","u","n","t",",","C","u","r","r","e","n","c","y"," ","c","o","d","e",",","F","u","l","f","i","l","m","e","n","t"," ","T","y","p","e">>,
    <<"R","e","s","t"," ","A",",","O","3",",","c","o","m","p","l","e","t","e","d",",","0","0",":","0","5",":","3","0">>,
    <<"R","e","s","t"," ","A",",","O","4",",","c","o","m","p","l","e","t","e","d",",","1","2",":","7","5">>,
    <<"R","e","s","t"," ","A",",","O","5",",","c","a","n","c","e","l","e","d",",","1">>
  >>

\* A ratings export: a rated order, and a row without a rating value
RatingsFile ==
  <<
    <<"R","e","s","t","a","u","r","a","n","t",",","E","x","t","e","r","n","a","l"," ","r","e","s","t","a","u","r","a","n","t"," ","I","D",",","O","r","d","e","r"," ","I","D",",","R","a","t","i","n","g"," ","v","a","l","u","e",",","R","a","t","i","n","g"," ","d","a","t","e",",","C","o","m","m","e","n","t">>,
    <<"R","e","s","t"," ","A",",","X","1",",","O","1",",","4",".","5",",","2","0","2","4","-","0","1","-","0","5",",","\"","G","o","o","d",","," ","f","a","s","t","\"">>,
    <<"R","e","s","t"," ","A",",","X","1",",","O","2",",">>
  >>

\* A file with seven of the ten columns of ten_columns
SevenColumnFile ==
  <<
    <<"c","0",",","c","1",",","c","2",",","c","3",",","c","4",",","c","5",",","c","6">>,
    <<"R","e","s","t"," ","B">>
  >>

\* A file with eight of the ten columns of ten_columns
EightColumnFile ==
  <<
    <<"c","0",",","c","1",",","c","2",",","c","3",",","c","4",",","c","5",",","c","6",",","c","7">>,
    <<"R","e","s","t"," ","B">>
  >>

\* An order-history export whose first data line is blank
BlankLineFile == <<OrdersFile[1], <<>>, OrdersFile[2]>>

\* A file without any line
EmptyFile == <<>>

\* The contents a file may have, by content: equal contents are one content,
\* and the SHA-256 digest is taken to tell any two of them apart.
Contents ==
  [orders |-> OrdersFile, malformed |-> MalformedFile, ratings |-> RatingsFile,
   seven |-> SevenColumnFile, eight |-> EightColumnFile, empty |-> EmptyFile,
   blank |-> BlankLineFile]

ContentIds == DOMAIN Contents

\* IngestionEngine.hash: the digest of the bytes of the file
Hash(content) == <<"sha256", content>>

\* The paths of existing files; any other path names no file
ExistingPaths == {"a.csv", "b.csv"}

\* The file argument of the command line; "" is an argument that was not given
Paths == ExistingPaths \cup {"missing.csv", ""}

\* The command argument of the command line
Commands == {"process", "bogus"}

\* Validators.isValidCommand
isValidCommand(command) == command \in {"process", "analyse"}

\* The integration keys given on the command line: none (Undefined), the name
\* of a seeded integration (it holds a digit), of an inactive and of an active
\* integration
IntegrationKeys ==
  {Undefined, Str(Name.deliveryplatform1_order_history), Str(Name.seven_columns),
   Str(Name.ten_columns)}

\* A variant of isValidFilePath without the check that the file exists
NonEmptyPath(path) == path # ""

\* Validators.isValidFilePath
isValidFilePath(path) == path # "" /\ path \in ExistingPaths

\* Validators.isValidIntegrationKey: /^[a-z_]+$/
isValidIntegrationKey(key) ==
  key.s # <<>> /\ \A i \in DOMAIN key.s : key.s[i] \in Range(LowerCase) \cup {"_"}

\* A function with every value computed (TLC otherwise computes the value at
\* an argument anew on every application)
Computed(f) == f @@ <<>>

\* this.parseCSVLine(line) for every line of every content
FileFields ==
  LET Fields(lines) == Computed([i \in DOMAIN lines |-> parseCSVLine(lines[i])])
      Files(contents) == Computed([content \in DOMAIN contents |-> Fields(contents[content])])
  IN Files(Contents)

\* headers = parseCSVLine(line).map(h => h.trim()), for every content with a line
FileHeaders ==
  LET Headers(fields) == Computed([i \in DOMAIN fields |-> Trim(fields[i])])
      Files(files) == Computed([content \in { c \in DOMAIN files : files[c] # <<>> } |->
                                  Headers(files[content][1])])
  IN Files(FileFields)

HeadersOf(content) == FileHeaders[content]

\* headers.forEach((h, i) => record[h] = fields[i] || ''): a later duplicate
\* header overwrites an earlier one, and a column that is no header is
\* undefined
rawRecord(headers, fields) ==
  LET Last(h) ==
        CHOOSE i \in DOMAIN headers :
          headers[i] = h /\ \A j \in DOMAIN headers : headers[j] = h => j <= i
      Cell(i) == IF i \in DOMAIN fields THEN Str(fields[i]) ELSE Str(<<>>)
  IN Computed([h \in Range(headers) |-> Cell(Last(h))])

\* The record of data line lineCount
RawRecord(content, lineCount) ==
  rawRecord(HeadersOf(content), FileFields[content][lineCount])

\* this.transform(record, integration) for every data line of every content
\* under every integration
Transformed ==
  LET Lines(content, lines, integrations) ==
        Computed([lineCount \in 2..Len(lines) |->
          Computed([i \in DOMAIN integrations |->
            transform(RawRecord(content, lineCount), integrations[i])])])
      Files(contents, integrations) ==
        Computed([content \in DOMAIN contents |->
                    Lines(content, contents[content], integrations)])
  IN Files(Contents, Integrations)

\* The digits of rem / den after the decimal point (at most k of them)
RECURSIVE FractionDigits(_, _, _)
FractionDigits(rem, den, k) ==
  IF rem = 0 \/ k = 0 THEN <<>>
  ELSE <<Digits[((10 * rem) \div den) + 1]>> \o FractionDigits((10 * rem) % den, den, k - 1)

\* String(x) for the values a mapped record holds
JsString(v) ==
  CASE v.t = "string" -> v
    [] v.t = "undefined" -> Str(<<"u", "n", "d", "e", "f", "i", "n", "e", "d">>)
    [] v.t = "null" -> Str(<<"n", "u", "l", "l">>)
    [] v.t = "NaN" -> Str(<<"N", "a", "N">>)
    [] v.t = "boolean" -> IF v.b THEN Str(<<"t", "r", "u", "e">>)
                          ELSE Str(<<"f", "a", "l", "s", "e">>)
    [] v.t = "number" ->
         LET a == IF v.num < 0 THEN 0 - v.num ELSE v.num
         IN Str((IF v.num < 0 THEN <<"-">> ELSE <<>>) \o NatToStr(a \div v.den)
                \o (IF a % v.den = 0 THEN <<>>
                    ELSE <<".">> \o FractionDigits(a % v.den, v.den, 17)))
    [] OTHER -> Str(<<"[", "o", "b", "j", "e", "c", "t", "]">>)

(***************************************************************************)
(* Storage: Database and the schema                                        *)
(***************************************************************************)

\* [...headers].sort(): insertion into a sequence sorted by code units
RECURSIVE SortInsert(_, _)
SortInsert(sorted, x) ==
  IF sorted = <<>> THEN <<x>>
  ELSE IF StrLess(x, Head(sorted)) THEN <<x>> \o sorted
  ELSE <<Head(sorted)>> \o SortInsert(Tail(sorted), x)

RECURSIVE SortStrings(_)
SortStrings(seq) ==
  IF seq = <<>> THEN <<>>
  ELSE SortInsert(SortStrings(SubSeq(seq, 1, Len(seq) - 1)), seq[Len(seq)])

\* Array.prototype.join
RECURSIVE Join(_, _)
Join(seq, sep) ==
  IF seq = <<>> THEN <<>>
  ELSE IF Len(seq) = 1 THEN seq[1]
  ELSE Join(SubSeq(seq, 1, Len(seq) - 1), sep) \o sep \o seq[Len(seq)]

CacheKey(headers) == Join(SortStrings(headers), <<"|">>)

\* fieldMappingKeys.filter(key => headers.includes(key)).length
MatchCount(integration, headers) ==
  Cardinality({ i \in DOMAIN integration.field_mapping :
                  Includes(headers, integration.field_mapping[i].key) })

\* A variant of AboveThreshold that lets a score of exactly 0.7 pass
AtLeastThreshold(matchCount, length) == length > 0 /\ 10 * matchCount >= 7 * length

\* score > 0.7, for score = matchCount / fieldMappingKeys.length (0/0 is NaN,
\* which exceeds nothing)
AboveThreshold(matchCount, length) == length > 0 /\ 10 * matchCount > 7 * length

\* A variant of BetterScore that lets an equal score replace the best match
NotWorseScore(matchCount, length, best) ==
  length > 0 /\ matchCount * best.length >= best.count * length

\* score > bestScore, for bestScore = best.count / best.length
BetterScore(matchCount, length, best) ==
  length > 0 /\ matchCount * best.length > best.count * length

\* The loop of getIntegrationByHeaders over result.rows, from row i on; best
\* holds bestMatch (an id, 0 for null) and bestScore (as count / length)
RECURSIVE BestMatchFrom(_, _, _, _)
BestMatchFrom(rows, headers, i, best) ==
  IF i > Len(rows) THEN best.match
  ELSE LET integration == rows[i]
           length == Len(integration.field_mapping)
           matchCount == MatchCount(integration, headers)
       IN IF AboveThreshold(matchCount, length) /\ BetterScore(matchCount, length, best)
          THEN BestMatchFrom(rows, headers, i + 1,
                             [match |-> integration.id, count |-> matchCount, length |-> length])
          ELSE BestMatchFrom(rows, headers, i + 1, best)

\* SELECT * FROM integrations WHERE is_active = true
ActiveIntegrations == SelectSeq(Integrations, LAMBDA r : r.is_active)

\* Database.getIntegrationByHeaders on a Database whose integrationCache is
\* cache (a set of <<cacheKey, integration id>>): the integration returned
\* (0 for null) and the cache afterwards
getIntegrationByHeaders(headers, cache) ==
  LET Store(cacheKey, bestMatch) ==
        [integration |-> bestMatch,
         cache |-> IF bestMatch # 0 THEN cache \cup {<<cacheKey, bestMatch>>} ELSE cache]
      Lookup(cacheKey) ==
        IF \E e \in cache : e[1] = cacheKey
        THEN [integration |-> (CHOOSE e \in cache : e[1] = cacheKey)[2], cache |-> cache]
        ELSE Store(cacheKey, BestMatchFrom(ActiveIntegrations, headers, 1,
                                           [match |-> 0, count |-> 0, length |-> 1]))
  IN Lookup(CacheKey(headers))

\* Database.getIntegrationByName: the id of the first active row of that name, 0 for null
getIntegrationByName(name) ==
  LET First(rows, hits) ==
        IF hits = {} THEN 0 ELSE rows[CHOOSE i \in hits : \A j \in hits : i <= j].id
      Find(rows) ==
        First(rows, { i \in DOMAIN rows : rows[i].name = name /\ rows[i].is_active })
  IN Find(Integrations)

\* A variant of isFileProcessed whose query also compares file_path (the
\* engine passes the empty string for it)
isFileProcessedAtPath(files, integrationId, filePath, fileHash) ==
  \E i \in DOMAIN files :
    /\ files[i].integration_id = integrationId
    /\ files[i].file_path = filePath
    /\ files[i].file_hash = fileHash

\* Database.isFileProcessed: the path is not part of the query
isFileProcessed(files, integrationId, filePath, fileHash) ==
  \E i \in DOMAIN files :
    files[i].integration_id = integrationId /\ files[i].file_hash = fileHash

\* The row createJob inserts: the columns it does not name take their defaults
NewJob(id, integrationId, filePath, totalRows) ==
  [id |-> id, integration_id |-> integrationId, file_path |-> filePath,
   status |-> "pending", total_rows |-> IntNum(totalRows), processed_rows |-> IntNum(0),
   inserted_rows |-> IntNum(0), error_rows |-> IntNum(0), error_message |-> Null,
   completed |-> FALSE]

\* A variant of Coalesce for an UPDATE that sets the column to the parameter
Overwrite(a, b) == a

\* COALESCE(a, b)
Coalesce(a, b) == IF a = Null THEN b ELSE a

\* The parameter updateJob sends for a statistic: stats.x || null
StatParam(n) == OrElse(n, Null)

\* A variant of UpdatedJob that writes the statistics and leaves the status
UpdatedJobStatsOnly(job, stats) ==
  [job EXCEPT
     !.total_rows = Coalesce(StatParam(stats.totalRows), @),
     !.processed_rows = Coalesce(StatParam(stats.processedRows), @),
     !.inserted_rows = Coalesce(StatParam(stats.insertedRows), @),
     !.error_rows = Coalesce(StatParam(stats.errorRows), @)]

\* Database.updateJob applied to the job row
UpdatedJob(job, stats) ==
  [job EXCEPT
     !.status = stats.status,
     !.completed = IF stats.status \in {"completed", "failed"} THEN TRUE ELSE @,
     !.total_rows = Coalesce(StatParam(stats.totalRows), @),
     !.processed_rows = Coalesce(StatParam(stats.processedRows), @),
     !.inserted_rows = Coalesce(StatParam(stats.insertedRows), @),
     !.error_rows = Coalesce(StatParam(stats.errorRows), @),
     !.error_message = Coalesce(StatParam(stats.errorMessage), @)]

\* A variant of LedgerConflict for a table without the UNIQUE constraint
NoLedgerConflict(files, integrationId, fileHash) == FALSE

\* UNIQUE(integration_id, file_hash) of data_source_files
LedgerConflict(files, integrationId, fileHash) ==
  \E i \in DOMAIN files :
    files[i].integration_id = integrationId /\ files[i].file_hash = fileHash

\* The row recordProcessedFile inserts
NewLedgerRow(integrationId, filePath, fileHash, totalRows, jobId) ==
  [integration_id |-> integrationId, file_path |-> filePath, file_hash |-> fileHash,
   total_rows |-> totalRows, job_id |-> jobId]

\* externalId && externalId.trim() !== ''
HasExternalId(externalId) == Truthy(externalId) /\ Trim(externalId.s) # <<>>

\* Database.upsertRestaurant on the restaurants table (a sequence, a row's id
\* its position): the table afterwards and the id returned
upsertRestaurant(rows, name, platformId, externalId) ==
  LET byExt == { i \in DOMAIN rows : HasExternalId(externalId)
                   /\ rows[i].platform_id = platformId /\ rows[i].external_id = externalId }
      byName == { i \in DOMAIN rows : rows[i].platform_id = platformId /\ rows[i].name = name }
  IN IF byExt # {}
     THEN LET id == CHOOSE i \in byExt : \A j \in byExt : i <= j
          IN [rows |-> [rows EXCEPT ![id].name = name], id |-> id]
     ELSE IF byName # {}
     THEN LET id == CHOOSE i \in byName : \A j \in byName : i <= j
          IN [rows |-> IF HasExternalId(externalId)
                       THEN [rows EXCEPT ![id].external_id = externalId] ELSE rows,
              id |-> id]
     ELSE [rows |-> Append(rows, [name |-> name, platform_id |-> platformId,
                                  external_id |-> IF HasExternalId(externalId)
                                                  THEN externalId ELSE Null]),
           id |-> Len(rows) + 1]

\* A column value that an INTEGER column does not take
NotInteger(v) == v # Null /\ (v.t # "number" \/ v.num % v.den # 0)

\* v < 0 for a column value (NULL satisfies every CHECK)
Below(v, bound) == v # Null /\ v.t = "number" /\ v.num < bound * v.den

\* Whether the INSERT of upsertOrder is refused: by a validator of upsertOrder,
\* a foreign key, an enumeration type, an INTEGER or VARCHAR(3) column or a
\* CHECK constraint of the orders table
OrderRefused(o, restaurantRows) ==
  \/ ~isValidNumber(o.platform_id)
  \/ ~isValidString(o.platform_order_id)
  \/ ~isValidNumber(o.restaurant_id)
  \/ o.restaurant_id.num \notin DOMAIN restaurantRows
  \/ ~IsString(o.order_status)
  \/ o.order_status.s \notin { OrderStatus[k] : k \in DOMAIN OrderStatus }
  \/ ~IsString(o.delivery_type)
  \/ o.delivery_type.s \notin { DeliveryType[k] : k \in DOMAIN DeliveryType }
  \/ ~IsString(o.currency_code) \/ Len(o.currency_code.s) > 3
  \/ NotInteger(o.basket_size) \/ NotInteger(o.restaurant_wait_time_minutes)
  \/ NotInteger(o.total_delivery_time_minutes) \/ NotInteger(o.courier_wait_time_minutes)
  \/ NotInteger(o.prep_time_minutes)
  \/ Below(o.order_value, 0) \/ Below(o.basket_size, 1) \/ Below(o.discount_amount, 0)
  \/ Below(o.restaurant_wait_time_minutes, 0) \/ Below(o.total_delivery_time_minutes, 0)
  \/ Below(o.courier_wait_time_minutes, 0) \/ Below(o.prep_time_minutes, 0)

\* Database.upsertOrder on the orders table: INSERT ... ON CONFLICT
\* (platform_id, platform_order_id) DO UPDATE
upsertOrder(rows, o) ==
  LET hit == { i \in DOMAIN rows : rows[i].platform_id = o.platform_id
                 /\ rows[i].platform_order_id = o.platform_order_id }
  IN IF hit # {} THEN [rows EXCEPT ![CHOOSE i \in hit : TRUE] = o] ELSE Append(rows, o)

\* Whether the statements of upsertRating are refused: rating_value is
\* CHECKed to lie in 0..5
RatingRefused(r) ==
  Below(r.rating_value, 0) \/ r.rating_value.num > 5 * r.rating_value.den

\* Database.upsertRating on the ratings table
upsertRating(rows, r, restaurantId, platformId) ==
  LET hit == { i \in DOMAIN rows : Truthy(r.platform_order_id)
                 /\ rows[i].platform_id = platformId
                 /\ rows[i].platform_order_id = r.platform_order_id
                 /\ rows[i].rating_type = r.rating_type }
      id == CHOOSE i \in hit : \A j \in hit : i <= j
  IN IF hit # {}
     THEN [rows EXCEPT ![id].rating_value = r.rating_value, ![id].comment = r.comment]
     ELSE Append(rows, [platform_order_id |-> OrElse(r.platform_order_id, Null),
                        restaurant_id |-> restaurantId, platform_id |-> platformId,
                        rating_value |-> r.rating_value, rating_type |-> r.rating_type,
                        comment |-> r.comment])

(***************************************************************************)
(* The ingestion runs                                                      *)
(***************************************************************************)

\* The number of invocations of the command line explored
MaxRuns == 2

\* The number of storage calls that fail for a reason outside the data
\* (connection loss, timeout) explored
MaxFaults == 1

\* The processes of the sequential specification: one invocation at a time
Processes == {"cli"}

VARIABLES
  jobs,               \* ingestion_jobs, a row's id its position
  data_source_files,  \* data_source_files, in insertion order
  restaurants,        \* restaurants, a row's id its position
  orders,             \* orders
  ratings,            \* ratings
  runs,               \* the invocations of processFile so far, in start order
  faults,             \* the storage calls that have failed for an outside reason
  lookup,             \* the last getIntegrationByHeaders call made on its own
  call                \* the last call of a pure function made on its own

vars == <<jobs, data_source_files, restaurants, orders, ratings, runs, faults, lookup, call>>

tables == <<jobs, data_source_files, restaurants, orders, ratings>>

\* The locals of stream() when processFile is entered.  Three fields record
\* history: calls lists the storage calls of the run that took effect, in
\* order, as <<call, lineCount>>; ledgerAtStart is the length of
\* data_source_files, and rowsAtStart the restaurants, orders and ratings
\* tables, when the run started.
NewRun(proc, path, content, key, ledgerLength, rows) ==
  [proc |-> proc, command |-> "process", pc |-> "header", path |-> path,
   content |-> content, key |-> key,
   lineCount |-> 0, integration |-> 0, jobId |-> 0, processed |-> 0, skipped |-> 0,
   restaurantId |-> 0, error |-> Null, failedAt |-> "", duplicate |-> FALSE,
   integrationCache |-> {}, calls |-> <<>>, ledgerAtStart |-> ledgerLength,
   rowsAtStart |-> rows]

\* A variant of Fail that counts the row an error arose on as skipped and
\* goes on with the next row
SkipFailedRow(run, name, message, at) ==
  IF at \in {"transform", "persist"}
  THEN [run EXCEPT !.pc = "line", !.skipped = @ + 1, !.failedAt = at]
  ELSE [run EXCEPT !.pc = "failed", !.error = [name |-> name, message |-> message],
                   !.failedAt = at]

\* An error leaves processFile: handleError logs it and the process exits
Fail(run, name, message, at) ==
  [run EXCEPT !.pc = "failed", !.error = [name |-> name, message |-> message],
              !.failedAt = at]

Running(run) == run.pc \notin {"done", "failed"}

\* The status the process ends with when handleError swallows the error
ExitStatusLogged(run) == 0

\* The status the process of an ended run ends with: handleError calls
\* process.exit(1); a return from processFile is followed by db.close() and
\* the end of main
ExitStatus(run) == IF run.pc = "failed" THEN 1 ELSE 0

Lines(run) == Contents[run.content]

\* The integration of a run past its header line
IntegrationOf(run) == IntegrationById(run.integration)

\* The position of an integration in the integrations table
IntegrationIndex(id) ==
  LET Index(rows) == CHOOSE i \in DOMAIN rows : rows[i].id = id
  IN Index(Integrations)

\* The mapped record of the data line the run is at
RecordOf(run) ==
  Transformed[run.content][run.lineCount][IntegrationIndex(run.integration)].r

Init ==
  /\ jobs = <<>>
  /\ data_source_files = <<>>
  /\ restaurants = <<>>
  /\ orders = <<>>
  /\ ratings = <<>>
  /\ runs = <<>>
  /\ faults = 0
  /\ lookup = [called |-> FALSE, headers |-> <<>>, found |-> 0]
  /\ call = [fn |-> "none"]

\* main with a command that isValidCommand refuses: the ValidationError goes
\* to handleError before any file is looked at
RejectCommand(p, command) ==
  /\ Len(runs) < MaxRuns
  /\ \A r \in DOMAIN runs : runs[r].proc = p => ~Running(runs[r])
  /\ ~isValidCommand(command)
  /\ LET Rejected(run) ==
           Fail([run EXCEPT !.command = command], "ValidationError", "Invalid command",
                "validation")
     IN runs' = Append(runs, Rejected(NewRun(p, "", "empty", Undefined,
                                             Len(data_source_files),
                                             <<restaurants, orders, ratings>>)))
  /\ UNCHANGED <<tables, faults, lookup, call>>

\* main with the command 'process', and processFile up to the call of
\* stream(): the validations and the digest
Start(p, path, content, key) ==
  /\ Len(runs) < MaxRuns
  /\ \A r \in DOMAIN runs : runs[r].proc = p => ~Running(runs[r])
  /\ path \notin ExistingPaths => content = "empty"
  /\ LET run == NewRun(p, path, content, key, Len(data_source_files),
                       <<restaurants, orders, ratings>>)
     IN runs' = Append(runs,
          IF path = ""
          THEN Fail(run, "ValidationError", "File path is required for process command",
                    "validation")
          ELSE IF ~isValidFilePath(path)
          THEN Fail(run, "ValidationError", "Invalid file path", "validation")
          ELSE IF Truthy(key) /\ ~isValidIntegrationKey(key)
          THEN Fail(run, "ValidationError", "Invalid integration key", "validation")
          ELSE run)
  /\ UNCHANGED <<tables, faults, lookup, call>>

\* The first line: the headers and the integration; a file without a line
\* ends the loop at once
ReadHeader(r) ==
  /\ runs[r].pc = "header"
  /\ LET Resolved(run, integration, cache) ==
           IF integration = 0
           THEN Fail([run EXCEPT !.lineCount = 1], "ValidationError",
                     IF Truthy(run.key) THEN "Integration not found"
                     ELSE "Could not detect integration", "validation")
           ELSE [run EXCEPT !.lineCount = 1, !.integration = integration, !.pc = "dedup",
                            !.integrationCache = cache]
         ByHeaders(run, found) == Resolved(run, found.integration, found.cache)
         First(run) ==
           IF Lines(run) = <<>> THEN [run EXCEPT !.pc = "done"]
           ELSE IF Truthy(run.key)
           THEN Resolved(run, getIntegrationByName(run.key.s), run.integrationCache)
           ELSE ByHeaders(run, getIntegrationByHeaders(HeadersOf(run.content),
                                                       run.integrationCache))
     IN runs' = [runs EXCEPT ![r] = First(@)]
  /\ UNCHANGED <<tables, faults, lookup, call>>

\* isFileProcessed: a file already recorded ends the run with nothing done
DedupCheck(r) ==
  /\ runs[r].pc = "dedup"
  /\ LET run == runs[r]
     IN runs' = [runs EXCEPT ![r] =
          IF isFileProcessed(data_source_files, run.integration, "", Hash(run.content))
          THEN [run EXCEPT !.pc = "done", !.duplicate = TRUE]
          ELSE [run EXCEPT !.pc = "createJob"]]
  /\ UNCHANGED <<tables, faults, lookup, call>>

\* createJob(integration.id, path, 0)
CreateJob(r, fault) ==
  /\ runs[r].pc = "createJob"
  /\ fault => faults < MaxFaults
  /\ LET run == runs[r]
         id == Len(jobs) + 1
     IN IF fault
        THEN /\ runs' = [runs EXCEPT ![r] =
                   Fail(run, "ProcessingError", "Failed to process file", "createJob")]
             /\ faults' = faults + 1
             /\ UNCHANGED jobs
        ELSE /\ jobs' = Append(jobs, NewJob(id, run.integration, run.path, 0))
             /\ runs' = [runs EXCEPT ![r] =
                   [run EXCEPT !.jobId = id, !.pc = "line",
                               !.calls = Append(@, <<"createJob", run.lineCount>>)]]
             /\ UNCHANGED faults
  /\ UNCHANGED <<data_source_files, restaurants, orders, ratings, lookup, call>>

\* if (record.restaurant_name && typeof record.restaurant_name === 'string')
HasRestaurant(record) == IsString(Get(record, "restaurant_name"))
                           /\ Truthy(Get(record, "restaurant_name"))

\* The condition under which processRecord calls upsertRating
HasRating(record, integration, restaurantId) ==
  /\ Includes(integration.tables, "ratings")
  /\ IsNumber(Get(record, "rating_value"))
  /\ restaurantId > 0

\* The storage call processRecord makes next, after the call named by after
\* ("counted": none, processRecord returns and the row is counted)
NextCall(record, integration, restaurantId, after) ==
  IF after = "record" /\ HasRestaurant(record) THEN "restaurant"
  ELSE IF after \in {"record", "restaurant"} /\ Includes(integration.tables, "orders")
  THEN "order"
  ELSE IF after \in {"record", "restaurant", "order"}
          /\ HasRating(record, integration, restaurantId)
  THEN "rating"
  ELSE "counted"

\* A variant of Advance in which the loop reads on while a storage call of
\* the row is outstanding (processRecord is not awaited)
AdvanceUnawaited(run, after) ==
  LET To(next) ==
        IF next = "counted" THEN [run EXCEPT !.pc = "line", !.processed = @ + 1]
        ELSE [run EXCEPT !.pc = next, !.lineCount = @ + 1]
  IN To(NextCall(RecordOf(run), IntegrationOf(run), run.restaurantId, after))

\* A variant of Advance that counts a row as skipped after its storage calls
AdvanceCountingSkipped(run, after) ==
  LET To(next) ==
        IF next = "counted" THEN [run EXCEPT !.pc = "line", !.skipped = @ + 1]
        ELSE [run EXCEPT !.pc = next]
  IN To(NextCall(RecordOf(run), IntegrationOf(run), run.restaurantId, after))

\* The run after a storage call of processRecord returned
Advance(run, after) ==
  LET To(next) ==
        IF next = "counted" THEN [run EXCEPT !.pc = "line", !.processed = @ + 1]
        ELSE [run EXCEPT !.pc = next]
  IN To(NextCall(RecordOf(run), IntegrationOf(run), run.restaurantId, after))

\* A variant of AfterLoop that records the file in the ledger before it
\* completes the job
AfterLoopLedgerFirst(step) ==
  CASE step = "line" -> "record"
    [] step = "record" -> "updateJob"
    [] OTHER -> "done"

\* What follows the loop over the lines of a run with a job: updateJob, then
\* recordProcessedFile, then the return
AfterLoop(step) ==
  CASE step = "line" -> "updateJob"
    [] step = "updateJob" -> "record"
    [] OTHER -> "done"

\* A variant of Skip that leaves a row without a normalized record uncounted
SkipUncounted(run) == run

\* transform returned null: skipped++
Skip(run) == [run EXCEPT !.skipped = @ + 1]

\* One turn of the loop over the data lines: the line is parsed and mapped
ReadLine(r) ==
  /\ runs[r].pc = "line"
  /\ LET Turn(run, at, transformed) ==
           IF run.lineCount = Len(Lines(run)) THEN [run EXCEPT !.pc = AfterLoop("line")]
           ELSE IF IsThrow(transformed)
           THEN Fail(at, "ProcessingError",
                     IF transformed.msg = "TypeError" THEN "Failed to process file"
                     ELSE transformed.msg, "transform")
           ELSE IF transformed = Null THEN Skip(at)
           ELSE Advance(at, "record")
         Line(run, at) ==
           Turn(run, at,
                IF run.lineCount = Len(Lines(run)) THEN Null
                ELSE Transformed[at.content][at.lineCount][IntegrationIndex(at.integration)])
     IN runs' = [runs EXCEPT ![r] =
                   Line(@, [@ EXCEPT !.lineCount = @ + 1, !.restaurantId = 0])]
  /\ UNCHANGED <<tables, faults, lookup, call>>

\* The orderData of a processRecord that leaves order_status at 'ACCEPTED'
OrderDataAccepted(record, integration, restaurantId) ==
  LET NumberOrNull(k) == IF Get(record, k).t \in {"number", "NaN"} THEN Get(record, k)
                         ELSE Null
  IN [platform_id |-> IntNum(integration.platform_id),
      platform_order_id |-> JsString(Get(record, "platform_order_id")),
      restaurant_id |-> IntNum(restaurantId),
      order_status |-> Str(OrderStatus.ACCEPTED),
      delivery_type |-> OrElse(Get(record, "delivery_type"), Str(DeliveryType.UNKNOWN)),
      order_value |-> NumberOrNull("order_value"),
      basket_size |-> NumberOrNull("basket_size"),
      discount_amount |-> NumberOrNull("discount_amount"),
      order_datetime |-> IF IsDate(Get(record, "order_datetime"))
                         THEN Get(record, "order_datetime") ELSE Null,
      restaurant_wait_time_minutes |-> NumberOrNull("restaurant_wait_time_minutes"),
      total_delivery_time_minutes |-> NumberOrNull("total_delivery_time_minutes"),
      courier_wait_time_minutes |-> NumberOrNull("courier_wait_time_minutes"),
      prep_time_minutes |-> NumberOrNull("prep_time_minutes"),
      currency_code |-> OrElse(Get(record, "currency_code"), Str(Lit.GBP)),
      auto_accept_status |-> OrElse(Get(record, "auto_accept_status"), Null)]

\* The orderData processRecord builds
OrderData(record, integration, restaurantId) ==
  LET NumberOrNull(k) == IF Get(record, k).t \in {"number", "NaN"} THEN Get(record, k)
                         ELSE Null
  IN [platform_id |-> IntNum(integration.platform_id),
      platform_order_id |-> JsString(Get(record, "platform_order_id")),
      restaurant_id |-> IntNum(restaurantId),
      order_status |-> OrElse(Get(record, "order_status"), Str(OrderStatus.ACCEPTED)),
      delivery_type |-> OrElse(Get(record, "delivery_type"), Str(DeliveryType.UNKNOWN)),
      order_value |-> NumberOrNull("order_value"),
      basket_size |-> NumberOrNull("basket_size"),
      discount_amount |-> NumberOrNull("discount_amount"),
      order_datetime |-> IF IsDate(Get(record, "order_datetime"))
                         THEN Get(record, "order_datetime") ELSE Null,
      restaurant_wait_time_minutes |-> NumberOrNull("restaurant_wait_time_minutes"),
      total_delivery_time_minutes |-> NumberOrNull("total_delivery_time_minutes"),
      courier_wait_time_minutes |-> NumberOrNull("courier_wait_time_minutes"),
      prep_time_minutes |-> NumberOrNull("prep_time_minutes"),
      currency_code |-> OrElse(Get(record, "currency_code"), Str(Lit.GBP)),
      auto_accept_status |-> OrElse(Get(record, "auto_accept_status"), Null)]

\* The ratingData processRecord builds
RatingData(record) ==
  [platform_order_id |-> JsString(Get(record, "platform_order_id")),
   rating_value |-> Get(record, "rating_value"),
   rating_type |-> Str(Lit.overall),
   comment |-> OrElse(Get(record, "comment"), Null)]

\* A storage call of processRecord throws
FailRecord(run) == Fail(run, "ProcessingError", "Failed to process record", "persist")

\* processRecord: upsertRestaurant
UpsertRestaurant(r, fault) ==
  /\ runs[r].pc = "restaurant"
  /\ fault => faults < MaxFaults
  /\ LET ExternalId(id) == IF IsString(id) /\ Truthy(id) THEN id ELSE Undefined
         Call(run, name, done) ==
           IF fault \/ ~isValidString(name)
           THEN /\ runs' = [runs EXCEPT ![r] = FailRecord(run)]
                /\ UNCHANGED restaurants
           ELSE /\ restaurants' = done.rows
                /\ runs' = [runs EXCEPT ![r] =
                      Advance([run EXCEPT !.restaurantId = done.id,
                                 !.calls = Append(@, <<"upsertRestaurant", run.lineCount>>)],
                              "restaurant")]
         With(run, record, integration) ==
           Call(run, Get(record, "restaurant_name"),
                upsertRestaurant(restaurants, Get(record, "restaurant_name"),
                                 integration.platform_id,
                                 ExternalId(Get(record, "restaurant_external_id"))))
     IN With(runs[r], RecordOf(runs[r]), IntegrationOf(runs[r]))
  /\ faults' = IF fault THEN faults + 1 ELSE faults
  /\ UNCHANGED <<jobs, data_source_files, orders, ratings, lookup, call>>

\* processRecord: upsertOrder
UpsertOrder(r, fault) ==
  /\ runs[r].pc = "order"
  /\ fault => faults < MaxFaults
  /\ LET Call(run, orderData) ==
           IF fault \/ OrderRefused(orderData, restaurants)
           THEN /\ runs' = [runs EXCEPT ![r] = FailRecord(run)]
                /\ UNCHANGED orders
           ELSE /\ orders' = upsertOrder(orders, orderData)
                /\ runs' = [runs EXCEPT ![r] =
                      Advance([run EXCEPT
                                 !.calls = Append(@, <<"upsertOrder", run.lineCount>>)],
                              "order")]
     IN Call(runs[r], OrderData(RecordOf(runs[r]), IntegrationOf(runs[r]),
                                runs[r].restaurantId))
  /\ faults' = IF fault THEN faults + 1 ELSE faults
  /\ UNCHANGED <<jobs, data_source_files, restaurants, ratings, lookup, call>>

\* processRecord: upsertRating
UpsertRating(r, fault) ==
  /\ runs[r].pc = "rating"
  /\ fault => faults < MaxFaults
  /\ LET Call(run, ratingData, integration) ==
           IF fault \/ RatingRefused(ratingData)
           THEN /\ runs' = [runs EXCEPT ![r] = FailRecord(run)]
                /\ UNCHANGED ratings
           ELSE /\ ratings' = upsertRating(ratings, ratingData, run.restaurantId,
                                           integration.platform_id)
                /\ runs' = [runs EXCEPT ![r] =
                      Advance([run EXCEPT
                                 !.calls = Append(@, <<"upsertRating", run.lineCount>>)],
                              "rating")]
     IN Call(runs[r], RatingData(RecordOf(runs[r])), IntegrationOf(runs[r]))
  /\ faults' = IF fault THEN faults + 1 ELSE faults
  /\ UNCHANGED <<jobs, data_source_files, restaurants, orders, lookup, call>>

\* After the loop: updateJob(jobId, {status: 'completed', ...})
UpdateJob(r, fault) ==
  /\ runs[r].pc = "updateJob"
  /\ fault => faults < MaxFaults
  /\ LET run == runs[r]
         stats == [status |-> "completed", totalRows |-> IntNum(run.lineCount - 1),
                   processedRows |-> IntNum(run.processed),
                   insertedRows |-> IntNum(run.processed),
                   errorRows |-> IntNum(run.skipped), errorMessage |-> Undefined]
     IN IF fault
        THEN /\ runs' = [runs EXCEPT ![r] =
                   Fail(run, "ProcessingError", "Failed to process file", "updateJob")]
             /\ UNCHANGED jobs
        ELSE /\ jobs' = [jobs EXCEPT ![run.jobId] = UpdatedJob(@, stats)]
             /\ runs' = [runs EXCEPT ![r] =
                   [run EXCEPT !.pc = AfterLoop("updateJob"),
                               !.calls = Append(@, <<"updateJob", run.lineCount>>)]]
  /\ faults' = IF fault THEN faults + 1 ELSE faults
  /\ UNCHANGED <<data_source_files, restaurants, orders, ratings, lookup, call>>

\* recordProcessedFile(integration.id, path, hash, lineCount - 1, jobId)
RecordProcessedFile(r, fault) ==
  /\ runs[r].pc = "record"
  /\ fault => faults < MaxFaults
  /\ LET run == runs[r]
     IN IF fault \/ LedgerConflict(data_source_files, run.integration, Hash(run.content))
        THEN /\ runs' = [runs EXCEPT ![r] =
                   Fail(run, "ProcessingError", "Failed to process file",
                        "recordProcessedFile")]
             /\ UNCHANGED data_source_files
        ELSE /\ data_source_files' =
                   Append(data_source_files,
                          NewLedgerRow(run.integration, run.path, Hash(run.content),
                                       run.lineCount - 1, run.jobId))
             /\ runs' = [runs EXCEPT ![r] =
                   [run EXCEPT !.pc = AfterLoop("record"),
                               !.calls = Append(@, <<"recordProcessedFile", run.lineCount>>)]]
  /\ faults' = IF fault THEN faults + 1 ELSE faults
  /\ UNCHANGED <<jobs, restaurants, orders, ratings, lookup, call>>

Next ==
  \/ \E p \in Processes, command \in Commands : RejectCommand(p, command)
  \/ \E p \in Processes, path \in Paths, content \in ContentIds, key \in IntegrationKeys :
       Start(p, path, content, key)
  \/ \E r \in DOMAIN runs : ReadHeader(r)
  \/ \E r \in DOMAIN runs : DedupCheck(r)
  \/ \E r \in DOMAIN runs, fault \in BOOLEAN : CreateJob(r, fault)
  \/ \E r \in DOMAIN runs : ReadLine(r)
  \/ \E r \in DOMAIN runs, fault \in BOOLEAN : UpsertRestaurant(r, fault)
  \/ \E r \in DOMAIN runs, fault \in BOOLEAN : UpsertOrder(r, fault)
  \/ \E r \in DOMAIN runs, fault \in BOOLEAN : UpsertRating(r, fault)
  \/ \E r \in DOMAIN runs, fault \in BOOLEAN : UpdateJob(r, fault)
  \/ \E r \in DOMAIN runs, fault \in BOOLEAN : RecordProcessedFile(r, fault)

Spec == Init /\ [][Next]_vars

\* Two command-line processes at once, each with its own Database and
\* IngestionEngine, on one database
ConcurrentProcesses == {"cli1", "cli2"}

\* The files the two processes are given
ConcurrentContents == {"orders", "ratings"}

\* The invocations of the two processes and the steps of their runs, in any
\* interleaving: every step is one awaited storage call or one turn of the
\* loop
ConcurrentNext ==
  \/ \E p \in ConcurrentProcesses, path \in ExistingPaths, content \in ConcurrentContents :
       Start(p, path, content, Undefined)
  \/ \E r \in DOMAIN runs : ReadHeader(r)
  \/ \E r \in DOMAIN runs : DedupCheck(r)
  \/ \E r \in DOMAIN runs, fault \in BOOLEAN : CreateJob(r, fault)
  \/ \E r \in DOMAIN runs : ReadLine(r)
  \/ \E r \in DOMAIN runs, fault \in BOOLEAN : UpsertRestaurant(r, fault)
  \/ \E r \in DOMAIN runs, fault \in BOOLEAN : UpsertOrder(r, fault)
  \/ \E r \in DOMAIN runs, fault \in BOOLEAN : UpsertRating(r, fault)
  \/ \E r \in DOMAIN runs, fault \in BOOLEAN : UpdateJob(r, fault)
  \/ \E r \in DOMAIN runs, fault \in BOOLEAN : RecordProcessedFile(r, fault)

ConcurrentSpec == Init /\ [][ConcurrentNext]_vars

(***************************************************************************)
(* getIntegrationByHeaders on its own                                      *)
(***************************************************************************)

\* The keys of a field_mapping as listed in the configuration
Keys(fields) == [i \in DOMAIN fields |-> fields[i].key]

\* Header rows: any of the six columns of the rating integration, followed by
\* the first n of the ten columns
HeaderRows ==
  LET Rows(rating, ten) ==
        { SelectSeq(rating, LAMBDA k : k \in chosen) \o SubSeq(ten, 1, n) :
            chosen \in SUBSET Range(rating), n \in 0..Len(ten) }
  IN Rows(Keys(deliveryPlatform1RatingFields), Keys(tenColumnFields))

\* A call of getIntegrationByHeaders on a Database just constructed (the CLI
\* constructs one per process and makes one call)
Lookup(headers) ==
  /\ ~lookup.called
  /\ lookup' = [called |-> TRUE, headers |-> headers,
                found |-> getIntegrationByHeaders(headers, {}).integration]
  /\ UNCHANGED <<tables, runs, faults, call>>

LookupNext == \E headers \in HeaderRows : Lookup(headers)

LookupSpec == Init /\ [][LookupNext]_vars

(***************************************************************************)
(* getIntegrationByHeaders, called again and again on one Database         *)
(***************************************************************************)

\* The calls made on one Database
MaxLookups == 4

Reverse(seq) == [i \in DOMAIN seq |-> seq[Len(seq) + 1 - i]]

\* Header rows: the ten columns, the same in reverse order, one column whose
\* name is the ten names joined by '|', the first eight and the first seven
\* of the ten, the columns of the rating export and of the order export
CachedHeaderRows ==
  LET Rows(ten) ==
        {ten, Reverse(ten), <<CacheKey(ten)>>, SubSeq(ten, 1, 8), SubSeq(ten, 1, 7)}
  IN Rows(Keys(tenColumnFields))
       \cup {Keys(deliveryPlatform1RatingFields), HeadersOf("orders")}

\* A call of getIntegrationByHeaders on the Database of the calls before it:
\* integrationCache is what those calls have left
CachedLookup(headers) ==
  /\ call.fn \in {"none", "getIntegrationByHeaders"}
  /\ call.fn # "none" => call.count < MaxLookups
  /\ LET Returned(cache, count) ==
           [fn |-> "getIntegrationByHeaders", headers |-> headers,
            found |-> getIntegrationByHeaders(headers, cache).integration,
            before |-> cache,
            cache |-> getIntegrationByHeaders(headers, cache).cache,
            count |-> count + 1]
     IN call' = IF call.fn = "none" THEN Returned({}, 0)
                ELSE Returned(call.cache, call.count)
  /\ UNCHANGED <<tables, runs, faults, lookup>>

CacheNext == \E headers \in CachedHeaderRows : CachedLookup(headers)

CacheSpec == Init /\ [][CacheNext]_vars

(***************************************************************************)
(* The pure functions, each called once on its own                         *)
(***************************************************************************)

\* The counts a mapped row of 'deliveryplatform3_total_order' can carry
Counts ==
  {Undefined, Null, NaN, IntNum(0), IntNum(1), IntNum(2), IntNum(0 - 1),
   Num(5, 10), Num(15, 10), Num(0 - 5, 10)}

\* The raw statuses a mapped row of 'deliveryplatform3_total_order' can carry
RawStatuses ==
  {Undefined, Null, Str(<<>>), Str(Lit.good), Str(<<"G","o","o","d">>),
   Str(<<"G","O","O","D">>), Str(Lit.bad), Str(<<"B","A","D">>),
   Str(<<"g","o","o","d","s">>), Str(Lit.accepted)}

Platform3Results ==
  [customer_cancelled_count : Counts, partner_cancelled_count : Counts,
   order_status_raw : RawStatuses]

\* The mapped rows of 'deliveryplatform1_order_history', with and without
\* the status its transform sets
Platform1Results ==
  [order_status : {Undefined, Null, Str(<<>>), Str(OrderStatus.COMPLETED),
                   Str(OrderStatus.REJECTED_CUSTOMER), Str(Lit.unknown)},
   cancelled_by : {Undefined, Null, Str(<<>>), Str(Lit.customer),
                   Str(<<"C","u","s","t","o","m","e","r">>),
                   Str(<<"r","e","s","t","a","u","r","a","n","t">>)},
   completed_flag : {Undefined, Null, Bool(TRUE), Bool(FALSE)}]

DetermineOrderStatus(result, integration) ==
  /\ call.fn = "none"
  /\ call' = [fn |-> "determineOrderStatus", result |-> result,
              integration |-> integration.name,
              returned |-> determineOrderStatus(result, integration)]
  /\ UNCHANGED <<tables, runs, faults, lookup>>

\* The names runTransformation has a case for
RegisteredTransforms ==
  {"existsOrEmpty", "existsOrDefault", "parseBoolean", "parsePercentage",
   "timeToMinutes", "parseDate", "parseDeliveryPlatform2Time",
   "parseDeliveryPlatform2DateTime", "deliveryType", "deliveryPlatform1OrderStatus",
   "deliveryPlatform1Boolean", "deliveryPlatform1CancelledBy",
   "deliveryPlatform3OrderStatus", "deliveryPlatform2AcceptStatus"}

\* Names it has no case for: misspelt, in another case, empty
TransformNames ==
  RegisteredTransforms \cup {"", "nope", "parsedate", "ParseBoolean", "toString"}

\* The cells a CSV record can hand to a field: absent, empty, or text
RawValues ==
  {Undefined, Str(<<>>), Str(<<" ">>), Str(<<"1">>), Str(<<" ", "7", " ">>),
   Str(<<"o","n">>), Str(<<"1",":","3","0">>), Str(<<"x">>),
   Str(<<"1","2",".","5","%">>), Str(<<"D","E","L","I","V","E","R","Y">>),
   Str(<<"d","e","l","i","v","e","r","y">>), Str(<<"P","i","c","k","u","p">>)}

\* FieldMaps of every type, with and without a transform, a default and
\* enum_values
FieldMaps ==
  {[FieldMap(<<"k">>, "field", type, transformName, required)
      EXCEPT !.default = default, !.has_enum = enum[1], !.enum_values = enum[2]] :
     type \in {"undefined", "string", "number", "boolean", "date", "enum"},
     transformName \in {"undefined", "", "nope", "parseBoolean", "timeToMinutes"},
     required \in BOOLEAN,
     default \in {Undefined, Null, Str(<<"d">>)},
     enum \in {<<FALSE, <<>>>>, <<TRUE, <<>>>>,
               <<TRUE, <<<<"D","e","l","i","v","e","r","y">>,
                         <<"C","o","l","l","e","c","t","i","o","n">>>>>>}}

\* The components of the H:M and H:M:S values: s holds the seconds, if any,
\* and pad tells whether a component below ten is written with two digits
TimeComponents ==
  [h : {0 - 1, 0, 1, 12, 25, 100}, m : {0 - 5, 0, 2, 59, 60, 75},
   s : {<<>>, <<0 - 1>>, <<0>>, <<29>>, <<30>>, <<59>>, <<60>>}, pad : BOOLEAN]

\* A component as it is written
ComponentText(n, pad) == IF pad /\ n >= 0 THEN Pad2(n) ELSE IntToStr(n)

\* An H:M or H:M:S value as it is written
TimeText(c) ==
  ComponentText(c.h, c.pad) \o <<":">> \o ComponentText(c.m, c.pad)
    \o (IF c.s = <<>> THEN <<>> ELSE <<":">> \o ComponentText(c.s[1], c.pad))

\* The values handed to timeToMinutes: times of two and three parts, the
\* same followed by a further part, plain numbers and text that is neither
TimeValues ==
  {Str(TimeText(c)) : c \in TimeComponents}
    \cup {Str(TimeText(c) \o <<":", "0", "0">>) : c \in {x \in TimeComponents : x.s # <<>>}}
    \cup {Undefined, Str(<<>>), Str(<<" ">>), Str(<<"5", ".", "5">>), Str(<<"-", "3">>),
          Str(<<"x">>), Str(<<"1", ":">>), Str(<<":">>)}

TimeToMinutes(value) ==
  /\ call.fn = "none"
  /\ call' = [fn |-> "timeToMinutes", value |-> value, returned |-> timeToMinutes(value)]
  /\ UNCHANGED <<tables, runs, faults, lookup>>

MaxLineLen == 5

\* The lines of at most MaxLineLen characters over a letter, the comma, the
\* double quote and the space
CsvLines ==
  UNION { [1..n -> {"a", ",", "\"", " "}] : n \in 0..MaxLineLen }

\* The headers of a file of three columns
ThreeHeaders == <<<<"h","1">>, <<"h","2">>, <<"h","3">>>>

\* parseCSVLine on one data line, and the record built from its fields under
\* ThreeHeaders
ParseCSVLine(line) ==
  /\ call.fn = "none"
  /\ call' = [fn |-> "parseCSVLine", line |-> line, returned |-> parseCSVLine(line),
              record |-> rawRecord(ThreeHeaders, parseCSVLine(line))]
  /\ UNCHANGED <<tables, runs, faults, lookup>>

\* The raw record with the cells under the keys; Undefined is a column the
\* file does not have
RawOf(keys, cells) ==
  [k \in { keys[i] : i \in { j \in DOMAIN keys : cells[j] # Undefined } } |->
     cells[CHOOSE i \in DOMAIN keys : keys[i] = k]]

\* Rows of 'deliveryplatform2_business_segments' with a restaurant and an
\* order id: the date and the time of day each absent, empty, well-formed or
\* unparsable
Platform2Rows ==
  LET Cells == {Undefined, Str(<<>>), Str(<<"x">>)}
      Rows(keys) ==
        { RawOf(SubSeq(keys, 1, 4), <<Str(<<"R">>), Str(<<"7">>), date, time>>) :
            date \in Cells \cup {Str(<<"2","0","2","4","-","0","1","-","0","5">>)},
            time \in Cells \cup {Str(<<"1","2",":","3","0">>)} }
  IN Rows(Keys(deliveryPlatform2Fields))

\* Rows of 'deliveryplatform1_order_history' with a restaurant: the order id
\* given or blank; the status absent, blank, known in either case or
\* unknown; the completion flag absent, blank or set; the cancellation actor
\* absent, the customer or the restaurant
Platform1Rows ==
  LET Rows(keys) ==
        { RawOf(<<keys[1], keys[3], keys[4], keys[5], keys[6]>>,
                <<Str(<<"R">>), id, status, completed, cancelledBy>>) :
            id \in {Str(<<>>), Str(<<"7">>)},
            status \in {Undefined, Str(<<>>), Str(Lit.completed),
                        Str(<<"C","a","n","c","e","l","e","d">>), Str(<<"x">>)},
            completed \in {Undefined, Str(<<>>), Str(Lit.one)},
            cancelledBy \in {Undefined, Str(Lit.customer),
                             Str(<<"r","e","s","t","a","u","r","a","n","t">>)} }
  IN Rows(Keys(deliveryPlatform1OrderFields))

\* IngestionEngine.transform on one raw record under integration i
Transform(raw, i) ==
  /\ call.fn = "none"
  /\ call' = [fn |-> "transform", raw |-> raw, integration |-> Integrations[i].name,
              returned |-> transform(raw, Integrations[i])]
  /\ UNCHANGED <<tables, runs, faults, lookup>>

\* Mappings an operator configures, of a required order id and a time in
\* either order; the column of the time has a shorter or a longer name than
\* the column of the id
ConfiguredMappings ==
  LET Id == FieldMap(<<"i","d">>, "platform_order_id", "undefined", "undefined", TRUE)
      Time(key) == FieldMap(key, "prep_time_minutes", "number", "timeToMinutes", FALSE)
  IN UNION { { <<Id, Time(key)>>, <<Time(key), Id>> } :
               key \in { <<"t">>, <<"t","i","m","e">> } }

\* The rows of a file with the columns of the mapping: the id blank or given,
\* the time malformed or well-formed
ConfiguredRows(fields) ==
  LET Cell(fieldMap, id, time) == IF fieldMap.required THEN id ELSE time
  IN { RawOf(Keys(fields), [i \in DOMAIN fields |-> Cell(fields[i], id, time)]) :
         id \in {Str(<<>>), Str(<<"7">>)},
         time \in {Str(<<"1","2",":","7","5">>), Str(<<"x">>), Str(<<"0","0",":","0","5">>)} }

\* upsertIntegration stores the mapping as configured, getIntegrationByName
\* reads the row back, and transform maps one raw record under it
TransformConfigured(fields, raw) ==
  /\ call.fn = "none"
  /\ call' = [fn |-> "transformConfigured", raw |-> raw, configured |-> fields,
              stored |-> JsonbObject(fields),
              returned |-> transform(raw, IntegrationRow(8, <<"t","w","o">>, 1, fields,
                                                         <<"restaurants">>, TRUE))]
  /\ UNCHANGED <<tables, runs, faults, lookup>>

RunTransformation(value, transformName) ==
  /\ call.fn = "none"
  /\ call' = [fn |-> "runTransformation", value |-> value,
              transformName |-> transformName,
              returned |-> runTransformation(value, transformName)]
  /\ UNCHANGED <<tables, runs, faults, lookup>>

ApplyTransform(value, fieldMap) ==
  /\ call.fn = "none"
  /\ call' = [fn |-> "applyTransform", value |-> value, fieldMap |-> fieldMap,
              returned |-> applyTransform(value, fieldMap)]
  /\ UNCHANGED <<tables, runs, faults, lookup>>

CallNext ==
  \/ \E i \in DOMAIN Integrations, result \in Platform3Results \cup Platform1Results :
       DetermineOrderStatus(result, Integrations[i])
  \/ \E value \in RawValues, transformName \in TransformNames :
       RunTransformation(value, transformName)
  \/ \E value \in RawValues, fieldMap \in FieldMaps : ApplyTransform(value, fieldMap)
  \/ \E value \in TimeValues : TimeToMinutes(value)
  \/ \E raw \in Platform2Rows : Transform(raw, 4)
  \/ \E raw \in Platform1Rows : Transform(raw, 2)
  \/ \E line \in CsvLines : ParseCSVLine(line)
  \/ \E fields \in ConfiguredMappings : \E raw \in ConfiguredRows(fields) :
       TransformConfigured(fields, raw)

CallSpec == Init /\ [][CallNext]_vars

(***************************************************************************)
(* Properties                                                              *)
(***************************************************************************)

RowCalls == {"upsertRestaurant", "upsertOrder", "upsertRating"}

\* The positions in the call log of a run of the calls named in names
CallsOf(run, names) == { i \in DOMAIN run.calls : run.calls[i][1] \in names }

Ended(run) == ~Running(run)

ErrorName(run) == IF run.error = Null THEN "" ELSE run.error.name

\* The ledger held, when the run started, a row for the integration the run
\* resolved to and the digest of its file
RecordedAtStart(run) ==
  \E i \in 1..run.ledgerAtStart :
    /\ data_source_files[i].integration_id = run.integration
    /\ data_source_files[i].file_hash = Hash(run.content)

\* C1: once the ledger holds a row for content C under integration I, every
\* later run on a file of the same digest that resolves to I, under whatever
\* path, makes no storage call that writes (no upsert, no job, no ledger row)
\* and ends without error with processed = 0 and skipped = 0.
C1_DedupShortCircuit ==
  \A r \in DOMAIN runs :
    (runs[r].integration # 0 /\ RecordedAtStart(runs[r])) =>
      /\ runs[r].pc \in {"dedup", "done"}
      /\ runs[r].pc = "done" => runs[r].duplicate
      /\ runs[r].calls = <<>>
      /\ runs[r].jobId = 0
      /\ runs[r].processed = 0 /\ runs[r].skipped = 0
      /\ runs[r].error = Null

\* C1, witness: a run has recorded a file with data rows, and a later run on
\* the same content under another path has ended as a duplicate.
C1_Witness ==
  \E r1, r2 \in DOMAIN runs :
    /\ r1 < r2
    /\ runs[r1].pc = "done" /\ ~runs[r1].duplicate /\ runs[r1].processed > 0
    /\ runs[r2].pc = "done" /\ runs[r2].duplicate
    /\ runs[r2].content = runs[r1].content
    /\ runs[r2].integration = runs[r1].integration
    /\ runs[r2].path # runs[r1].path

\* C2: a run that fails on a data row (a transform raises, a storage call of
\* the row fails) after createJob returned has its job updated to 'failed'
\* with the error message; no job of an ended run is left 'pending'.
C2_FailedJobMarked ==
  \A r \in DOMAIN runs :
    /\ (runs[r].failedAt \in {"transform", "persist"} /\ runs[r].jobId # 0) =>
         /\ jobs[runs[r].jobId].status = "failed"
         /\ jobs[runs[r].jobId].error_message # Null
    /\ (Ended(runs[r]) /\ runs[r].jobId # 0) => jobs[runs[r].jobId].status # "pending"

\* C3: of the runs on one content that resolve to one integration, at most
\* one makes restaurant, order or rating calls for the data rows.
C3_RowsPersistedByOneRun ==
  \A r1, r2 \in DOMAIN runs :
    (/\ r1 < r2
     /\ runs[r1].content = runs[r2].content
     /\ runs[r1].integration = runs[r2].integration
     /\ runs[r1].integration # 0) =>
      (CallsOf(runs[r1], RowCalls) = {} \/ CallsOf(runs[r2], RowCalls) = {})

\* C4: when the latest run has aborted on data row k before any storage call
\* for that row took effect, the restaurants, orders and ratings tables are
\* as they were when the run started: nothing it wrote for the rows before
\* k remains.
C4_AbortedRunLeavesNoRows ==
  \A r \in DOMAIN runs :
    (/\ r = Len(runs)
     /\ runs[r].failedAt \in {"transform", "persist"}
     /\ \A i \in DOMAIN runs[r].calls : runs[r].calls[i][2] < runs[r].lineCount) =>
      <<restaurants, orders, ratings>> = runs[r].rowsAtStart

\* The raw record of the data line the run reads next, and its field_mapping
NextRaw(run) == RawRecord(run.content, run.lineCount + 1)

\* The run is about to read a data line
AtDataLine(run) == run.pc = "line" /\ run.lineCount < Len(Lines(run))

\* The row was dropped: it is counted as skipped, no storage call was made
\* for it and the run goes on with the next line
Dropped(run, after) ==
  /\ after.pc = "line"
  /\ after.lineCount = run.lineCount + 1
  /\ after.skipped = run.skipped + 1
  /\ after.processed = run.processed
  /\ after.calls = run.calls
  /\ after.error = Null

\* The data line has no value in the column of a required field
RequiredCellMissing(raw, fields) ==
  \E i \in DOMAIN fields :
    fields[i].required /\ Get(raw, fields[i].key) \in {Undefined, Str(<<>>)}

\* C5 as the specification states it: a data row with no value (a missing
\* or an empty cell) in the source column of a required field makes no
\* storage call, adds one to skipped, and the run goes on.
C5_RequiredCellMissingDrops ==
  [][\A r \in DOMAIN runs :
       (/\ AtDataLine(runs[r])
        /\ runs'[r] # runs[r]
        /\ RequiredCellMissing(NextRaw(runs[r]), IntegrationOf(runs[r]).field_mapping))
       => Dropped(runs[r], runs'[r])]_vars

\* Field i is the first required field whose mapped value (after the default,
\* the transform and the coercion to its type) is undefined, null or '', and
\* no field before it raised
RequiredValueEmpty(raw, fields) ==
  \E i \in DOMAIN fields :
    /\ fields[i].required
    /\ applyTransform(Get(raw, fields[i].key), fields[i]) \in {Undefined, Null, Str(<<>>)}
    /\ \A j \in 1..(i - 1) : ~IsThrow(applyTransform(Get(raw, fields[j].key), fields[j]))

\* C5: a data row for which the mapped value of a required field is
\* undefined, null or '', no field before it in mapping order having raised,
\* makes no storage call, adds one to skipped, and the run goes on.
C5_RequiredValueEmptyDrops ==
  [][\A r \in DOMAIN runs :
       (/\ AtDataLine(runs[r])
        /\ runs'[r] # runs[r]
        /\ RequiredValueEmpty(NextRaw(runs[r]), IntegrationOf(runs[r]).field_mapping))
       => Dropped(runs[r], runs'[r])]_vars

\* C5, witness: the second data row of the ratings file, which has no rating
\* value, was dropped after the first one was stored.
C5_Witness ==
  \E r \in DOMAIN runs :
    /\ runs[r].content = "ratings" /\ runs[r].integration = 3
    /\ runs[r].pc = "line" /\ runs[r].lineCount = 3
    /\ runs[r].skipped = 1 /\ runs[r].processed = 1

\* C6: a run that a transform error or a failed storage call ended on data
\* row k stays ended: the row is neither skipped nor processed, no call was
\* made for a later row or made twice, the job was never updated and is not
\* 'completed', and the ledger has no row of the run.
C6_RowErrorAborts ==
  /\ [](\A r \in DOMAIN runs :
          runs[r].failedAt \in {"transform", "persist"} =>
            /\ runs[r].pc = "failed"
            /\ runs[r].error # Null
            /\ runs[r].processed + runs[r].skipped = runs[r].lineCount - 2
            /\ \A i \in DOMAIN runs[r].calls : runs[r].calls[i][2] <= runs[r].lineCount
            /\ \A i, j \in DOMAIN runs[r].calls : runs[r].calls[i] = runs[r].calls[j] => i = j
            /\ CallsOf(runs[r], {"updateJob", "recordProcessedFile"}) = {}
            /\ runs[r].jobId # 0 => jobs[runs[r].jobId].status # "completed"
            /\ \A i \in DOMAIN data_source_files :
                 data_source_files[i].job_id # runs[r].jobId)
  /\ [][\A r \in DOMAIN runs : runs[r].pc = "failed" => runs'[r] = runs[r]]_vars

\* C6, witness: a run failed in a transform on a row after a row it had
\* processed, with a row still unread.
C6_Witness ==
  \E r \in DOMAIN runs :
    /\ runs[r].failedAt = "transform"
    /\ runs[r].processed > 0
    /\ runs[r].lineCount < Len(Lines(runs[r]))

\* The fraction matchCount / length against 70%
MoreThan70(matchCount, length) == 10 * matchCount > 7 * length

AtLeast70(matchCount, length) == 10 * matchCount >= 7 * length

\* The positions in the integrations table of the active integrations whose
\* share of field-mapping keys among the headers passes
Candidates(headers, Passes(_, _)) ==
  LET In(rows) ==
        { i \in DOMAIN rows :
            rows[i].is_active
              /\ Passes(MatchCount(rows[i], headers), Len(rows[i].field_mapping)) }
  IN In(Integrations)

\* The headers of a content; a file without a line has none
HeadersOrNone(content) == IF Contents[content] = <<>> THEN <<>> ELSE HeadersOf(content)

\* The run has read the header line of its file without having been given a key
DetectedByHeaders(run) == ~Truthy(run.key) /\ run.lineCount >= 1

\* The outcome of detection for the candidates: one of them is the
\* integration of the run, or there is none and the run failed in validation
Detected(run, candidates) ==
  IF candidates = {}
  THEN /\ run.integration = 0
       /\ run.pc = "failed"
       /\ ErrorName(run) = "ValidationError"
  ELSE /\ run.integration # 0
       /\ IntegrationIndex(run.integration) \in candidates

\* C7 as the specification states it: without a key, headers that hold at
\* least 70% of the field-mapping keys of an active integration select an
\* integration that they hold at least 70% of; when they hold less than 70%
\* of every active integration the run fails with a validation error.
C7_AtLeastSeventyPercentSelects ==
  \A r \in DOMAIN runs :
    DetectedByHeaders(runs[r]) =>
      Detected(runs[r], Candidates(HeadersOf(runs[r].content), AtLeast70))

\* C7: without a key, headers that hold more than 70% of the field-mapping
\* keys of an active integration select an integration that they hold more
\* than 70% of; when they hold 70% or less of every active integration the
\* run fails with a validation error.
C7_MoreThanSeventyPercentSelects ==
  \A r \in DOMAIN runs :
    DetectedByHeaders(runs[r]) =>
      Detected(runs[r], Candidates(HeadersOf(runs[r].content), MoreThan70))

\* C7, witness: a run without a key failed in validation on headers that hold
\* exactly 70% of the keys of an active integration.
C7_Witness ==
  \E r \in DOMAIN runs :
    /\ DetectedByHeaders(runs[r])
    /\ runs[r].pc = "failed" /\ ErrorName(runs[r]) = "ValidationError"
    /\ Candidates(HeadersOf(runs[r].content), AtLeast70) # {}
    /\ Candidates(HeadersOf(runs[r].content), MoreThan70) = {}

\* Of the candidates, those no candidate has a higher score than
\* (scores are compared as fractions, by cross multiplication)
Highest(headers, candidates) ==
  LET Count(i) == MatchCount(Integrations[i], headers)
      Length(i) == Len(Integrations[i].field_mapping)
  IN { i \in candidates :
         \A j \in candidates : Count(i) * Length(j) >= Count(j) * Length(i) }

\* The id of the first row among the positions, 0 when there is none
FirstOf(positions) ==
  IF positions = {} THEN 0
  ELSE Integrations[CHOOSE i \in positions : \A j \in positions : i <= j].id

\* C8: getIntegrationByHeaders returns the first, in storage order, of the
\* active integrations of the highest score among those whose score exceeds
\* 0.7, and none (0) when no active integration scores above 0.7; an
\* inactive integration is never returned.
C8_BestActiveMatch ==
  lookup.called =>
    lookup.found = FirstOf(Highest(lookup.headers, Candidates(lookup.headers, MoreThan70)))

\* C8, witness: two active integrations share the highest score for the
\* headers of the call, and the first of them was returned.
C8_Witness ==
  /\ lookup.called
  /\ Cardinality(Highest(lookup.headers, Candidates(lookup.headers, MoreThan70))) > 1
  /\ lookup.found # 0
  /\ lookup.found = FirstOf(Highest(lookup.headers, Candidates(lookup.headers, MoreThan70)))

\* The key names no active integration
NamesNoActiveIntegration(key) ==
  \A i \in DOMAIN Integrations :
    ~(Integrations[i].name = key.s /\ Integrations[i].is_active)

\* The file path names no file, the key does not match [a-z_]+, the key names
\* no active integration, or the headers match no integration; evenEmpty
\* tells whether the last two are taken to apply to a file without a line
ValidationFailure(run, evenEmpty) ==
  \/ run.path \notin ExistingPaths
  \/ Truthy(run.key) /\ ~isValidIntegrationKey(run.key)
  \/ /\ evenEmpty \/ Lines(run) # <<>>
     /\ \/ Truthy(run.key) /\ NamesNoActiveIntegration(run.key)
        \/ ~Truthy(run.key) /\ Candidates(HeadersOrNone(run.content), MoreThan70) = {}

\* The run made no storage call, and no error or a ValidationError ended it
\* at the latest when it read the header line
RaisedBeforeCreateJob(run) ==
  /\ run.pc \in {"header", "failed"}
  /\ run.pc = "failed" => ErrorName(run) = "ValidationError"
  /\ run.jobId = 0
  /\ run.calls = <<>>
  /\ run.lineCount <= 1

JobCompleted(run) ==
  /\ run.integration # 0
  /\ run.jobId # 0
  /\ CallsOf(run, {"createJob"}) = {1}
  /\ Cardinality(CallsOf(run, {"updateJob"})) = 1
  /\ \A i \in CallsOf(run, RowCalls), j \in CallsOf(run, {"updateJob"}) : i < j
  /\ jobs[run.jobId].integration_id = run.integration
  /\ jobs[run.jobId].status = "completed"
  /\ jobs[run.jobId].total_rows = IntNum(Len(Lines(run)) - 1)
  /\ jobs[run.jobId].processed_rows = IntNum(run.processed)
  /\ jobs[run.jobId].inserted_rows = IntNum(run.processed)
  /\ jobs[run.jobId].error_rows = IntNum(run.skipped)

\* C10 as the specification states it: a run that reached the end of its
\* file without error and not as a duplicate created exactly one job, after
\* the integration was resolved and before any call for a row, and updated
\* it exactly once, to 'completed' with total_rows the number of data lines,
\* processed_rows = inserted_rows = processed and error_rows = skipped, also
\* where a count is 0.
C10_EveryCompletedRunHasJob ==
  \A r \in DOMAIN runs :
    (runs[r].pc = "done" /\ ~runs[r].duplicate) => JobCompleted(runs[r])

\* C10: the same for a run on a file with at least a header line; a run on a
\* file without a line creates no job.
C10_CompletedRunWithHeaderHasJob ==
  \A r \in DOMAIN runs :
    (runs[r].pc = "done" /\ ~runs[r].duplicate) =>
      IF Lines(runs[r]) = <<>> THEN runs[r].jobId = 0 /\ runs[r].calls = <<>>
      ELSE JobCompleted(runs[r])

\* C10, witness: a run ended with its job completed and a count of 0.
C10_Witness ==
  \E r \in DOMAIN runs :
    /\ runs[r].pc = "done" /\ ~runs[r].duplicate /\ runs[r].jobId # 0
    /\ runs[r].processed = 0
    /\ runs[r].skipped > 0

\* C11: the header line is handled first (the integration is resolved, the
\* ledger is consulted and the job is created before any call for a row),
\* the data rows are handled in file order, one line at a time, and a line
\* is read only when no storage call of the row before is outstanding: the
\* calls of a run are logged in the order of their lines.
C11_RowsInFileOrder ==
  /\ [](\A r \in DOMAIN runs :
          /\ \A i, j \in DOMAIN runs[r].calls :
               i < j => runs[r].calls[i][2] <= runs[r].calls[j][2]
          /\ \A i \in DOMAIN runs[r].calls : runs[r].calls[i][2] <= runs[r].lineCount
          /\ runs[r].calls # <<>> =>
               /\ runs[r].calls[1] = <<"createJob", 1>>
               /\ runs[r].integration # 0
               /\ ~RecordedAtStart(runs[r])
          /\ runs[r].pc \in {"restaurant", "order", "rating"} => runs[r].lineCount >= 2)
  /\ [][\A r \in DOMAIN runs :
          runs'[r].lineCount # runs[r].lineCount =>
            /\ runs'[r].lineCount = runs[r].lineCount + 1
            /\ runs[r].pc \in {"header", "line"}]_vars

\* C11, witness: a run has made storage calls for the first and for the
\* third data row of its file, having dropped the second.
C11_Witness ==
  \E r \in DOMAIN runs :
    /\ \E i \in DOMAIN runs[r].calls : runs[r].calls[i][2] = 2
    /\ \E i \in DOMAIN runs[r].calls : runs[r].calls[i][2] = 4
    /\ runs[r].skipped = 1

\* The names of the storage calls the run made for line n, in order
CallsAtLine(run, n) ==
  LET At(calls) == [i \in DOMAIN calls |-> calls[i][1]]
  IN At(SelectSeq(run.calls, LAMBDA c : c[2] = n /\ c[1] \in RowCalls))

\* The data lines the run has dealt with to the end: all lines read, but for
\* the line a storage call is outstanding for and the line the run failed on
HandledLines(run) ==
  IF run.lineCount < 2 THEN {}
  ELSE IF run.pc \in {"restaurant", "order", "rating"}
          \/ run.failedAt \in {"transform", "persist"}
  THEN 2..(run.lineCount - 1)
  ELSE 2..run.lineCount

\* The counts of the run are the numbers of lines with the calls named in
\* calls and of lines without a call, and every line is one or the other
CountsMatchCalls(run, lines, calls) ==
  /\ \A n \in lines : CallsAtLine(run, n) \in {calls, <<>>}
  /\ run.processed = Cardinality({ n \in lines : CallsAtLine(run, n) = calls })
  /\ run.skipped = Cardinality({ n \in lines : CallsAtLine(run, n) = <<>> })

\* The run made one recordProcessedFile call, and the ledger holds one row
\* for its integration and the digest of its file, naming its job
OneLedgerRow(run) ==
  /\ Cardinality(CallsOf(run, {"recordProcessedFile"})) = 1
  /\ Cardinality({ i \in DOMAIN data_source_files :
                     /\ data_source_files[i].integration_id = run.integration
                     /\ data_source_files[i].file_hash = Hash(run.content) }) = 1
  /\ \E i \in DOMAIN data_source_files :
       /\ data_source_files[i].integration_id = run.integration
       /\ data_source_files[i].file_hash = Hash(run.content)
       /\ data_source_files[i].job_id = run.jobId

\* C12: under an integration that targets orders and restaurants, every row
\* counted as processed caused one upsertRestaurant call followed by one
\* upsertOrder call, every row counted as skipped caused no storage call,
\* and a run that ended in success after creating its job wrote one ledger
\* row for (integration id, digest).
C12_CallsPerRow ==
  \A r \in DOMAIN runs :
    (/\ runs[r].integration # 0
     /\ Includes(IntegrationOf(runs[r]).tables, "orders")
     /\ Includes(IntegrationOf(runs[r]).tables, "restaurants")) =>
      /\ CountsMatchCalls(runs[r], HandledLines(runs[r]),
                          <<"upsertRestaurant", "upsertOrder">>)
      /\ (runs[r].pc = "done" /\ ~runs[r].duplicate) => OneLedgerRow(runs[r])

\* C12, witness: a run on the order-history file has ended in success with
\* two rows processed and the row with the blank order id skipped.
C12_Witness ==
  \E r \in DOMAIN runs :
    /\ runs[r].content = "orders" /\ runs[r].integration = 2
    /\ runs[r].pc = "done" /\ ~runs[r].duplicate
    /\ runs[r].processed = 2 /\ runs[r].skipped = 1
    /\ CallsAtLine(runs[r], 3) = <<>>
    /\ CallsAtLine(runs[r], 2) = <<"upsertRestaurant", "upsertOrder">>

\* A call of determineOrderStatus for the named integration on a mapped row
\* that has the given field
Resolved(name, field) ==
  /\ call.fn = "determineOrderStatus"
  /\ call.integration = name
  /\ field \in DOMAIN call.result

NonZero(count) == count.t = "number" /\ count.num # 0

AtLeastOne(count) == count.t = "number" /\ count.num >= count.den

RawStatusIs(raw, word) == IsString(raw) /\ ToLowerCase(raw.s) = word

\* The status the rule gives a mapped row, under a reading of "cancelled"
Platform3Rule(result, Cancelled(_)) ==
  IF Cancelled(result.customer_cancelled_count) THEN OrderStatus.CANCELLED_CUSTOMER
  ELSE IF Cancelled(result.partner_cancelled_count) THEN OrderStatus.CANCELLED_RESTAURANT
  ELSE IF RawStatusIs(result.order_status_raw, Lit.good) THEN OrderStatus.COMPLETED
  ELSE IF RawStatusIs(result.order_status_raw, Lit.bad) THEN OrderStatus.REJECTED
  ELSE OrderStatus.ACCEPTED

Present(v) == v \notin {Undefined, Null, Str(<<>>)}

\* C14: for 'deliveryplatform1_order_history' the derived status is the
\* status an upstream transform has set on the record, if any; otherwise,
\* with a cancellation actor present, CANCELLED_CUSTOMER when the actor is
\* exactly 'customer' and CANCELLED_RESTAURANT for any other actor; otherwise
\* COMPLETED when the completion flag is true and REJECTED when it is false.
C14_UpstreamStatusThenActorThenFlag ==
  Resolved(Name.deliveryplatform1_order_history, "cancelled_by") =>
    /\ Present(call.result.order_status) => call.returned = call.result.order_status
    /\ (~Present(call.result.order_status) /\ Present(call.result.cancelled_by)) =>
         call.returned =
           IF call.result.cancelled_by = Str(Lit.customer)
           THEN Str(OrderStatus.CANCELLED_CUSTOMER)
           ELSE Str(OrderStatus.CANCELLED_RESTAURANT)
    /\ (~Present(call.result.order_status) /\ ~Present(call.result.cancelled_by)) =>
         /\ call.result.completed_flag = Bool(TRUE) =>
              call.returned = Str(OrderStatus.COMPLETED)
         /\ call.result.completed_flag = Bool(FALSE) =>
              call.returned = Str(OrderStatus.REJECTED)

\* C14 witness: a status is set, the actor is 'customer' and the flag is
\* false, and the status that was set is returned
C14_Witness ==
  /\ Resolved(Name.deliveryplatform1_order_history, "cancelled_by")
  /\ call.result.order_status = Str(OrderStatus.COMPLETED)
  /\ call.result.cancelled_by = Str(Lit.customer)
  /\ call.result.completed_flag = Bool(FALSE)
  /\ call.returned = Str(OrderStatus.COMPLETED)

\* C15: applying a transform whose name is not registered returns the raw
\* input value unchanged and raises nothing, for every input and every
\* unregistered name; and a field whose FieldMap names such a transform comes
\* out of applyTransform as the raw value, whatever its type, enum_values and
\* required flag (the default, when one is configured, still replaces an
\* empty raw value before any transform is looked up).
C15_UnregisteredTransformPassesThrough ==
  /\ (call.fn = "runTransformation" /\ call.transformName \notin RegisteredTransforms) =>
       call.returned = call.value
  /\ (/\ call.fn = "applyTransform"
      /\ call.fieldMap.transform \notin RegisteredTransforms \cup {"undefined", ""}
      /\ Truthy(call.value) \/ call.fieldMap.default = Undefined) =>
       call.returned = call.value

\* C15 witness: a number-typed field with an unregistered transform keeps the
\* text " 7 " that coercion would have turned into the number 7
C15_Witness ==
  /\ call.fn = "applyTransform"
  /\ call.fieldMap.transform = "nope"
  /\ call.fieldMap.type = "number"
  /\ call.value = Str(<<" ", "7", " ">>)
  /\ call.returned = Str(<<" ", "7", " ">>)
  /\ applyTransform(call.value, [call.fieldMap EXCEPT !.transform = "undefined"]) = IntNum(7)

\* A data line of the file of the run raises in transform under the
\* integration the run resolved to, and no earlier run has recorded the file
ThrowingLine(run) ==
  /\ run.integration # 0
  /\ ~RecordedAtStart(run)
  /\ \E n \in 2..Len(Lines(run)) :
       IsThrow(Transformed[run.content][n][IntegrationIndex(run.integration)])

CalledWithTime(text) == call.fn = "timeToMinutes" /\ call.value = Str(text)

\* C17 as stated: timeToMinutes("25:00") fails with a malformed-time error.
C17_HourOf25Fails ==
  CalledWithTime(<<"2", "5", ":", "0", "0">>) => IsThrow(call.returned)

\* C17 amended: timeToMinutes("25:00") does not fail; the hour is not bounded
\* and the result is 25 * 60 = 1500 minutes.
C17_HourOf25Gives1500 ==
  CalledWithTime(<<"2", "5", ":", "0", "0">>) => call.returned = IntNum(25 * 60)

\* C17 witness: the call on "25:00" has returned a number
C17_Witness ==
  /\ CalledWithTime(<<"2", "5", ":", "0", "0">>)
  /\ call.returned.t = "number"

\* The minutes of a time given by its components: hours * 60 + minutes, and
\* one more when there are seconds and they are 30 or more
MinutesOf(c) == c.h * 60 + c.m + (IF c.s # <<>> /\ c.s[1] >= 30 THEN 1 ELSE 0)

\* Minutes and seconds are within 0..59 and the hour is not negative
WithinBounds(c) ==
  /\ c.h >= 0
  /\ c.m >= 0 /\ c.m <= 59
  /\ c.s # <<>> => (c.s[1] >= 0 /\ c.s[1] <= 59)

\* C18: for a value H:M or H:M:S of integer components timeToMinutes returns
\* hours * 60 + minutes + round(seconds / 60) whenever minutes and seconds
\* are within 0..59 and the hour is not negative, however large the hour;
\* it fails when minutes or seconds exceed 59, when a component is negative,
\* and when the value has more than three parts.
C18_MinutesOfTime ==
  \A c \in TimeComponents :
    /\ CalledWithTime(TimeText(c)) =>
         IF WithinBounds(c) THEN call.returned = IntNum(MinutesOf(c))
         ELSE IsThrow(call.returned)
    /\ (c.s # <<>> /\ CalledWithTime(TimeText(c) \o <<":", "0", "0">>)) =>
         IsThrow(call.returned)

\* C18 witness: "01:02:30" has given 63, the half minute rounded up
C18_Witness ==
  /\ CalledWithTime(<<"0", "1", ":", "0", "2", ":", "3", "0">>)
  /\ call.returned = IntNum(63)

\* The run resolved to an integration whose tables include 'orders'
OrdersIntegration(run) ==
  run.integration # 0 /\ Includes(IntegrationOf(run).tables, "orders")

\* No field of the data line raises, and the line has no platform_order_id
\* once mapped: no field has that target, or its mapped value is empty
OrderIdMissing(raw, fields) ==
  /\ \A i \in DOMAIN fields : ~IsThrow(applyTransform(Get(raw, fields[i].key), fields[i]))
  /\ \A i \in DOMAIN fields :
       fields[i].target = "platform_order_id" =>
         ~Truthy(applyTransform(Get(raw, fields[i].key), fields[i]))

\* The values of the order-status enumeration
OrderStatuses == { Str(OrderStatus[k]) : k \in DOMAIN OrderStatus }

\* The order the run has just stored carries the status determineOrderStatus
\* gives the mapped record of the line
StoredWithResolvedStatus(run, rows) ==
  \E i \in DOMAIN rows :
    /\ rows[i].platform_order_id = JsString(Get(RecordOf(run), "platform_order_id"))
    /\ rows[i].platform_id = IntNum(IntegrationOf(run).platform_id)
    /\ rows[i].order_status = determineOrderStatus(RecordOf(run), IntegrationOf(run))

\* C19: under an integration whose tables include 'orders', a data row that
\* has no platform_order_id once mapped is dropped (one more skipped, no
\* storage call, the run goes on); every order stored carries the status
\* determineOrderStatus gave its mapped record, and every row of orders has
\* one of the seven values of the order-status enumeration.
C19_OrderIdAndStatus ==
  /\ [](\A i \in DOMAIN orders : orders[i].order_status \in OrderStatuses)
  /\ [][\A r \in DOMAIN runs :
          (/\ AtDataLine(runs[r])
           /\ runs'[r] # runs[r]
           /\ OrdersIntegration(runs[r])
           /\ OrderIdMissing(NextRaw(runs[r]), IntegrationOf(runs[r]).field_mapping))
          => Dropped(runs[r], runs'[r])]_vars
  /\ [][\A r \in DOMAIN runs :
          (runs[r].pc = "order" /\ Len(runs'[r].calls) > Len(runs[r].calls))
          => StoredWithResolvedStatus(runs[r], orders')]_vars

\* C19 witness: of the orders file the row without an order id was dropped
\* and the row without a status was stored as REJECTED
C19_Witness ==
  \E r \in DOMAIN runs :
    /\ runs[r].content = "orders" /\ runs[r].integration = 2
    /\ runs[r].pc = "done"
    /\ runs[r].skipped = 1
    /\ \E i \in DOMAIN orders :
         /\ orders[i].platform_order_id = Str(<<"O", "2">>)
         /\ orders[i].order_status = Str(OrderStatus.REJECTED)

\* applyTransform was called for a field of type enum without a transform,
\* and the default, if there is one, does not stand in for an empty value
EnumCoerced ==
  /\ call.fn = "applyTransform"
  /\ call.fieldMap.type = "enum"
  /\ call.fieldMap.transform \in {"undefined", ""}
  /\ Truthy(call.value) \/ call.fieldMap.default = Undefined

\* The value equals no entry of the enum_values of the field in any case
MatchesNoEntry(value, fieldMap) ==
  \A i \in DOMAIN fieldMap.enum_values :
    ~(IsString(value) /\ ToLowerCase(value.s) = ToLowerCase(fieldMap.enum_values[i]))

\* C20: for a field of type enum without a transform, a raw value that
\* matches no entry of enum_values in any case comes out unchanged; it is
\* never null, and the row is dropped for it only when the field is required
\* and the value is empty.
C20_UnmatchedEnumPassesThrough ==
  (EnumCoerced /\ MatchesNoEntry(call.value, call.fieldMap)) =>
    /\ call.returned = call.value
    /\ call.returned # Null
    /\ RequiredEmpty(call.fieldMap, call.returned) =>
         (call.fieldMap.required /\ call.value \in {Undefined, Str(<<>>)})

\* C20 witness: 'Pickup' is no entry of ['Delivery', 'Collection'] and is
\* the value of the required field
C20_Witness ==
  /\ EnumCoerced
  /\ call.fieldMap.has_enum /\ Len(call.fieldMap.enum_values) = 2
  /\ call.fieldMap.required
  /\ call.value = Str(<<"P","i","c","k","u","p">>)
  /\ MatchesNoEntry(call.value, call.fieldMap)
  /\ call.returned = Str(<<"P","i","c","k","u","p">>)
  /\ ~RequiredEmpty(call.fieldMap, call.returned)

\* The field without its default and its transform: what is left is the
\* coercion by the declared type
TypeOnly(fieldMap) == [fieldMap EXCEPT !.default = Undefined, !.transform = "undefined"]

\* C21: per field exactly one of three rules gives the result, in this
\* order: (1) the raw value is empty or absent and a default is defined: the
\* default, and nothing is raised, whatever the transform; (2) otherwise, a
\* transform name is set: the result of the transform, whatever the declared
\* type; (3) otherwise: the value coerced by the declared type.
C21_DefaultThenTransformThenType ==
  call.fn = "applyTransform" =>
    IF call.value \in {Undefined, Str(<<>>)} /\ call.fieldMap.default # Undefined
    THEN call.returned = call.fieldMap.default /\ ~IsThrow(call.returned)
    ELSE IF call.fieldMap.transform \notin {"undefined", ""}
    THEN call.returned = runTransformation(call.value, call.fieldMap.transform)
    ELSE call.returned = applyTransform(call.value, TypeOnly(call.fieldMap))

\* C21 witness: an empty cell of a number field with the transform
\* timeToMinutes and the default 'd' has given 'd', where the transform gives
\* null and the coercion gives null
C21_Witness ==
  /\ call.fn = "applyTransform"
  /\ call.value = Str(<<>>)
  /\ call.fieldMap.type = "number"
  /\ call.fieldMap.transform = "timeToMinutes"
  /\ call.fieldMap.default = Str(<<"d">>)
  /\ call.returned = Str(<<"d">>)
  /\ runTransformation(call.value, "timeToMinutes") = Null

\* What getIntegrationByHeaders computes for the headers without a cache
Uncached(headers) == getIntegrationByHeaders(headers, {}).integration

\* C22: the cache of getIntegrationByHeaders is transparent: every call of a
\* sequence of calls on one Database returns the integration the best-match
\* computation gives for its header list; only a match is cached, and an
\* entry of the cache is never removed or replaced.
C22_CacheTransparent ==
  call.fn = "getIntegrationByHeaders" =>
    /\ call.found = Uncached(call.headers)
    /\ call.before \subseteq call.cache
    /\ \A e \in call.cache \ call.before : e[2] # 0 /\ e[2] = call.found

\* C22, the part that holds: only a match is cached, no entry is removed or
\* replaced, and a call whose headers are those of an earlier call, in any
\* order, returns what that call returned.
C22_CacheGrowsByMatches ==
  call.fn = "getIntegrationByHeaders" =>
    /\ call.before \subseteq call.cache
    /\ \A e \in call.cache \ call.before : e[2] # 0 /\ e[2] = call.found
    /\ \A e, f \in call.cache : e[1] = f[1] => e = f
    /\ (call.found = 0) = (\A e \in call.cache : e[1] # CacheKey(call.headers))

\* transform has handed back a normalized record for the named integration
Normalized(name) ==
  /\ call.fn = "transform"
  /\ call.integration = name
  /\ call.returned.t = "record"

\* C23: for 'deliveryplatform2_business_segments' no normalized record has
\* an order_time field, whether the date and the time-of-day cell are
\* present, absent or unparsable.
C23_NoOrderTimeField ==
  Normalized(Name.deliveryplatform2_business_segments) =>
    "order_time" \notin DOMAIN call.returned.r

\* C23, the part that holds: when the date cell parses and the time-of-day
\* cell is not empty, order_time is removed and order_datetime is the
\* timestamp of the two, or null when the time of day is not HH:MM.
C23_CombinedWhenBothPresent ==
  \A raw \in Platform2Rows :
    (/\ Normalized(Name.deliveryplatform2_business_segments)
     /\ call.raw = raw
     /\ Get(raw, Keys(deliveryPlatform2Fields)[3]) = Str(<<"2","0","2","4","-","0","1","-","0","5">>)
     /\ Truthy(Get(raw, Keys(deliveryPlatform2Fields)[4])))
    => /\ "order_time" \notin DOMAIN call.returned.r
       /\ call.returned.r.order_datetime =
            IF Get(raw, Keys(deliveryPlatform2Fields)[4]) = Str(<<"1","2",":","3","0">>)
            THEN DateOf(2024, 1, 5, 12, 30, 0)
            ELSE Null


\* The commas of the line that lie outside the quoted sections: those with an
\* even number of double quotes before them
UnquotedCommas(line) ==
  { i \in DOMAIN line :
      line[i] = "," /\ Cardinality({ j \in 1..(i - 1) : line[j] = "\"" }) % 2 = 0 }

\* The number of occurrences of the character in the fields
Occurrences(fields, c) ==
  Cardinality({ p \in (DOMAIN fields) \X (1..MaxLineLen) :
                  p[2] \in DOMAIN fields[p[1]] /\ fields[p[1]][p[2]] = c })

\* C24: parseCSVLine returns one field more than the line has commas outside
\* quoted sections; the commas inside quoted sections, and no others, stay in
\* the fields; a quote character is in a field only where the line has a
\* doubled quote, and '""""' yields the one field '"'; the fields hold every
\* letter of the line; and the record of a row gives every header beyond the
\* row's fields the empty string and every other header the field at its index
C24_SplitsOnUnquotedCommas ==
  call.fn = "parseCSVLine" =>
    /\ Len(call.returned) = Cardinality(UnquotedCommas(call.line)) + 1
    /\ Occurrences(call.returned, ",")
         = Cardinality({ i \in DOMAIN call.line : call.line[i] = "," })
           - Cardinality(UnquotedCommas(call.line))
    /\ Occurrences(call.returned, "a") = Occurrences(<<call.line>>, "a")
    /\ (\A i \in 1..(Len(call.line) - 1) : ~(call.line[i] = "\"" /\ call.line[i + 1] = "\""))
         => Occurrences(call.returned, "\"") = 0
    /\ call.line = <<"\"", "\"", "\"", "\"">> => call.returned = << <<"\"">> >>
    /\ call.line = <<"\"", "a", ",", "a", "\"">> => call.returned = << <<"a", ",", "a">> >>
    /\ \A i \in DOMAIN ThreeHeaders :
         call.record[ThreeHeaders[i]] =
           IF i <= Len(call.returned) THEN Str(call.returned[i]) ELSE Str(<<>>)

\* C24: a line with a comma inside a quoted section and a comma outside one
\* has been split in two fields, which leaves the third header with the empty
\* string
C24_Witness ==
  /\ call.fn = "parseCSVLine"
  /\ call.line = <<"\"", ",", "\"", ",", "a">>
  /\ call.returned = << <<",">>, <<"a">> >>
  /\ call.record[ThreeHeaders[3]] = Str(<<>>)

\* The data lines the loop of a run has taken from the file
DataLinesConsumed(run) == IF run.lineCount = 0 THEN 0 ELSE run.lineCount - 1

\* The run is inside processRecord for the line it took last
InsideRecord(run) == run.pc \in {"restaurant", "order", "rating"}

\* C25: for every run that has not failed, processed + skipped is the number
\* of data lines its loop has taken from the file, less the one line whose
\* storage calls are still under way; a blank data line is counted as
\* skipped; and when a run has ended in success after creating its job,
\* processed + skipped is the total_rows of its job and of its ledger row.
C25_CountsAddUp ==
  \A r \in DOMAIN runs :
    /\ runs[r].pc # "failed" =>
         runs[r].processed + runs[r].skipped
           = DataLinesConsumed(runs[r]) - (IF InsideRecord(runs[r]) THEN 1 ELSE 0)
    /\ (runs[r].content = "blank" /\ runs[r].pc # "failed" /\ runs[r].lineCount >= 2
         /\ ~(runs[r].lineCount = 2 /\ InsideRecord(runs[r]))) => runs[r].skipped >= 1
    /\ (runs[r].pc = "done" /\ ~runs[r].duplicate /\ runs[r].jobId # 0) =>
         /\ jobs[runs[r].jobId].total_rows = IntNum(runs[r].processed + runs[r].skipped)
         /\ \E i \in DOMAIN data_source_files :
              /\ data_source_files[i].job_id = runs[r].jobId
              /\ data_source_files[i].total_rows = runs[r].processed + runs[r].skipped

\* C25, witness: a run on the file with a blank line and a full row has
\* ended in success with one row processed and the blank line skipped, and
\* its job and its ledger row hold a total of two rows.
C25_Witness ==
  \E r \in DOMAIN runs, i \in DOMAIN data_source_files :
    /\ runs[r].content = "blank" /\ runs[r].pc = "done" /\ ~runs[r].duplicate
    /\ runs[r].processed = 1 /\ runs[r].skipped = 1
    /\ jobs[runs[r].jobId].total_rows = IntNum(2)
    /\ data_source_files[i].job_id = runs[r].jobId
    /\ data_source_files[i].total_rows = 2

\* Every ledger row references a job of its integration that is completed
LedgerRowsOfCompletedJobs ==
  \A i \in DOMAIN data_source_files :
    /\ data_source_files[i].job_id \in DOMAIN jobs
    /\ jobs[data_source_files[i].job_id].integration_id = data_source_files[i].integration_id
    /\ jobs[data_source_files[i].job_id].status = "completed"

\* C26: after every step each ledger row references a job of the same
\* integration whose status is 'completed', and a step that writes a ledger
\* row writes one row, for a job that was completed before the step.
C26_LedgerAfterCompletion ==
  [][/\ LedgerRowsOfCompletedJobs'
     /\ data_source_files' # data_source_files =>
          /\ Len(data_source_files') = Len(data_source_files) + 1
          /\ SubSeq(data_source_files', 1, Len(data_source_files)) = data_source_files
          /\ data_source_files'[Len(data_source_files')].job_id \in DOMAIN jobs
          /\ jobs[data_source_files'[Len(data_source_files')].job_id].status = "completed"
          /\ jobs' = jobs]_vars

\* C26, witness: the ledger holds a row for a completed job while another
\* job is pending, left so by a run that failed.
C26_Witness ==
  \E i \in DOMAIN data_source_files, j \in DOMAIN jobs, r \in DOMAIN runs :
    /\ jobs[data_source_files[i].job_id].status = "completed"
    /\ jobs[j].status = "pending"
    /\ runs[r].jobId = j /\ runs[r].pc = "failed"
    /\ \A k \in DOMAIN data_source_files : data_source_files[k].job_id # j

\* Run r1 failed before run r2 began, on the content of r2 and, where it got
\* as far as an integration, under the integration of r2
FailedBefore(r1, r2) ==
  /\ r1 < r2
  /\ runs[r1].pc = "failed"
  /\ runs[r1].content = runs[r2].content
  /\ runs[r1].integration \in {0, runs[r2].integration}

\* Every run before r2 on the content and under the integration of r2 failed,
\* and there is one
OnlyFailedBefore(r2) ==
  /\ runs[r2].integration # 0
  /\ \E r1 \in DOMAIN runs : FailedBefore(r1, r2)
  /\ \A r1 \in 1..(r2 - 1) :
       (runs[r1].content = runs[r2].content /\ runs[r1].integration = runs[r2].integration)
         => runs[r1].pc = "failed"

\* C27: a failed run made no recordProcessedFile call and no ledger row names
\* its job; and a run whose file and integration only failed runs were given
\* before finds no ledger row for them, does not end as a duplicate, gets a
\* job of its own from createJob before it reads a data line, counts from
\* the first data line, and makes for each line the storage calls the failed
\* run made for it.
C27_FailedRunIsRetried ==
  /\ \A r \in DOMAIN runs :
       runs[r].pc = "failed" =>
         /\ CallsOf(runs[r], {"recordProcessedFile"}) = {}
         /\ \A i \in DOMAIN data_source_files :
              runs[r].jobId # 0 => data_source_files[i].job_id # runs[r].jobId
  /\ \A r2 \in DOMAIN runs :
       OnlyFailedBefore(r2) =>
         /\ ~RecordedAtStart(runs[r2])
         /\ ~runs[r2].duplicate
         /\ (runs[r2].lineCount >= 2 \/ runs[r2].pc \in {"line", "updateJob", "record", "done"})
              => /\ runs[r2].jobId \in DOMAIN jobs
                 /\ runs[r2].calls[1] = <<"createJob", 1>>
                 /\ \A r1 \in 1..(r2 - 1) : runs[r1].jobId # runs[r2].jobId
         /\ runs[r2].pc # "failed" =>
              runs[r2].processed + runs[r2].skipped
                = DataLinesConsumed(runs[r2]) - (IF InsideRecord(runs[r2]) THEN 1 ELSE 0)
         /\ \A r1 \in 1..(r2 - 1) :
              FailedBefore(r1, r2) /\ runs[r1].integration # 0 =>
                \A n \in HandledLines(runs[r1]) \cap HandledLines(runs[r2]) :
                  CallsAtLine(runs[r2], n) = CallsAtLine(runs[r1], n)

\* C27, witness: a run failed at updateJob after it had processed rows, and a
\* later run on the same content under the same integration has ended in
\* success with a job of its own and the same rows processed.
C27_Witness ==
  \E r1, r2 \in DOMAIN runs :
    /\ FailedBefore(r1, r2) /\ OnlyFailedBefore(r2)
    /\ runs[r1].failedAt = "updateJob" /\ runs[r1].processed > 0
    /\ runs[r2].pc = "done" /\ ~runs[r2].duplicate
    /\ runs[r2].jobId # 0 /\ runs[r2].jobId # runs[r1].jobId
    /\ runs[r2].processed = runs[r1].processed
    /\ CallsAtLine(runs[r2], 2) # <<>>

\* Runs r1 and r2 of two processes were given the same content under the
\* same integration, and both passed the dedup check
BothPassedDedup(r1, r2) ==
  /\ r1 # r2
  /\ runs[r1].proc # runs[r2].proc
  /\ runs[r1].content = runs[r2].content
  /\ runs[r1].integration # 0 /\ runs[r1].integration = runs[r2].integration
  /\ runs[r1].jobId # 0 /\ runs[r2].jobId # 0

\* C28: under every interleaving of two processes the ledger holds at most
\* one row for an integration and a digest; and of two runs on the same
\* content that both passed the dedup check, when one has recorded the file
\* the other, once past its own recordProcessedFile call, has failed there
\* and left no ledger row.
C28_OneLedgerRowPerFile ==
  /\ \A i, j \in DOMAIN data_source_files :
       (/\ data_source_files[i].integration_id = data_source_files[j].integration_id
        /\ data_source_files[i].file_hash = data_source_files[j].file_hash) => i = j
  /\ \A r1, r2 \in DOMAIN runs :
       (/\ BothPassedDedup(r1, r2)
        /\ CallsOf(runs[r1], {"recordProcessedFile"}) # {}
        /\ CallsOf(runs[r2], {"updateJob"}) # {}
        /\ runs[r2].pc # "record") =>
         /\ runs[r2].pc = "failed"
         /\ runs[r2].failedAt = "recordProcessedFile"
         /\ CallsOf(runs[r2], {"recordProcessedFile"}) = {}
         /\ \A i \in DOMAIN data_source_files :
              data_source_files[i].job_id # runs[r2].jobId

\* C28, witness: two runs on the order-history file both passed the dedup
\* check and completed their jobs without a storage fault; one recorded the
\* file and the other failed at recordProcessedFile.
C28_Witness ==
  \E r1, r2 \in DOMAIN runs :
    /\ BothPassedDedup(r1, r2)
    /\ faults = 0
    /\ runs[r1].content = "orders"
    /\ runs[r1].pc = "done" /\ ~runs[r1].duplicate
    /\ runs[r2].pc = "failed" /\ runs[r2].failedAt = "recordProcessedFile"
    /\ jobs[runs[r1].jobId].status = "completed"
    /\ jobs[runs[r2].jobId].status = "completed"
    /\ Len(data_source_files) = 1

\* The position in the mapping of the field with the target
PositionOf(fields, target) == CHOOSE i \in DOMAIN fields : fields[i].target = target

\* The row under transform has a blank id, which is required, and a time
\* that timeToMinutes rejects
BlankIdAndMalformedTime ==
  /\ call.fn = "transformConfigured"
  /\ \A i \in DOMAIN call.configured :
       Get(call.raw, call.configured[i].key) =
         IF call.configured[i].required THEN Str(<<>>) ELSE Str(<<"1","2",":","7","5">>)

\* C29: for a row with a blank required id and a malformed time, transform
\* returns null when the id precedes the time in the mapping as configured,
\* and raises when the time precedes the id in the mapping as configured.
C29_ConfiguredOrderDecides ==
  BlankIdAndMalformedTime =>
    IF PositionOf(call.configured, "platform_order_id")
         < PositionOf(call.configured, "prep_time_minutes")
    THEN call.returned = Null
    ELSE IsThrow(call.returned)

\* C29: for a row with a blank required id and a malformed time, transform
\* returns null when the id precedes the time in the mapping as stored
\* (shorter column names first), and raises when the time precedes the id;
\* the order of the stored mapping is not always the order configured.
C29_StoredOrderDecides ==
  /\ BlankIdAndMalformedTime =>
       IF PositionOf(call.stored, "platform_order_id")
            < PositionOf(call.stored, "prep_time_minutes")
       THEN call.returned = Null
       ELSE IsThrow(call.returned) /\ call.returned.msg = "Invalid time values"
  /\ call.fn = "transformConfigured" =>
       (call.stored = call.configured
          <=> Len(call.configured[1].key) < Len(call.configured[2].key))

\* The cell of the row under transform in the column of field i of the
\* order-history mapping
Platform1Cell(i) == Get(call.raw, deliveryPlatform1OrderFields[i].key)

\* C30: under 'deliveryplatform1_order_history' a row with a restaurant and
\* an order id is never dropped for its status, and the order_status of every
\* normalized record is COMPLETED for the status 'completed', REJECTED_CUSTOMER
\* for 'canceled' (in any case) and REJECTED for every other status, a blank
\* or an absent one included, whatever the cancellation actor and the
\* completion flag are: never CANCELLED_CUSTOMER or CANCELLED_RESTAURANT.
C30_StatusFromTransformOnly ==
  (call.fn = "transform" /\ call.integration = Name.deliveryplatform1_order_history) =>
    /\ Platform1Cell(3) = Str(<<"7">>) => call.returned.t = "record"
    /\ call.returned.t = "record" =>
         /\ Get(call.returned.r, "order_status") \in
              {Str(OrderStatus.COMPLETED), Str(OrderStatus.REJECTED_CUSTOMER),
               Str(OrderStatus.REJECTED)}
         /\ Get(call.returned.r, "order_status") = Str(OrderStatus.COMPLETED)
              <=> Platform1Cell(4) = Str(Lit.completed)
         /\ Get(call.returned.r, "order_status") = Str(OrderStatus.REJECTED_CUSTOMER)
              <=> Platform1Cell(4) = Str(<<"C","a","n","c","e","l","e","d">>)

\* C30, witness: a row with an unknown status, the customer as cancellation
\* actor and the completion flag set has been normalized with the status
\* REJECTED, with both fallback fields in the record.
C30_Witness ==
  /\ Normalized(Name.deliveryplatform1_order_history)
  /\ Platform1Cell(4) = Str(<<"x">>)
  /\ Get(call.returned.r, "cancelled_by") = Str(Lit.customer)
  /\ Get(call.returned.r, "completed_flag") = Bool(TRUE)
  /\ Get(call.returned.r, "order_status") = Str(OrderStatus.REJECTED)

=========================================================================
